---- MODULE Spec2Model ----
(***************************************************************************)
(* Model of the memory-aware SSA passes of cmd/compile/internal/ssa:       *)
(* the alias partitioning engine (aliasAnalysis), tighten, and             *)
(* storeforward.  A function is a record of values (indexed by value ID)   *)
(* and blocks (indexed by block ID); the passes mutate it in place.        *)
(***************************************************************************)
EXTENDS Integers, Sequences, FiniteSets, TLC

VARIABLES
    fn,     \* the *Func being compiled: values, blocks, dominators, loops
    aa,     \* the aliasAnalysis built by aa.init(f)
    pc,     \* position of the running pass
    q,      \* the last alias-engine query and its result
    tg,     \* local state of tighten
    sf,     \* local state of storeforward
    ls,     \* progress and history of loadshuffle
    jr,     \* local state of joinreturn
    sp      \* the splicePipe of a running splice, its error and the syscall in progress

vars == <<fn, aa, pc, q, tg, sf, ls, jr, sp>>

(***************************************************************************)
(* Bounds of the model.                                                    *)
(***************************************************************************)
\* load/store widths drawn for queries are 0 and 4*k, k in 1..MaxWidthUnits
MaxWidthUnits == 2

Widths == {0} \cup {4 * k : k \in 1..MaxWidthUnits}

(***************************************************************************)
(* Types (cmd/compile/internal/types): size and shape predicates.          *)
(***************************************************************************)
TypeSize(t) ==
    CASE t \in {"Int64", "UInt64", "Float64", "BytePtr", "Int64Ptr", "Float64Ptr", "UIntptr"} -> 8
      [] t \in {"Int32", "Float32", "BytePtr32", "Int64Ptr32", "Float64Ptr32"} -> 4
      [] t = "Int16" -> 2
      [] t \in {"Int8", "UInt8", "Bool"} -> 1
      [] t = "Struct24" -> 24
      [] t = "Complex128" -> 16
      [] OTHER -> 0

\* the "...32" pointer types are those of a target with 4-byte pointers
IsPtrShaped(t) ==
    t \in {"BytePtr", "Int64Ptr", "Float64Ptr", "BytePtr32", "Int64Ptr32", "Float64Ptr32"}

IsFloat(t) == t \in {"Float64", "Float32"}

IsBoolean(t) == t = "Bool"

IsMemory(t) == t = "Mem"

IsTuple(t) == t = "Tuple"

(***************************************************************************)
(* Symbols.  A symbol is identified by its name; the name decides whether  *)
(* it is an *AutoSymbol, an *ArgSymbol or an *ExternSymbol, and whether an *)
(* extern symbol lives in read-only data.                                  *)
(***************************************************************************)
AutoSyms == {"autotmp0", "autotmp1"}

ArgSyms == {"retarg", "retarg1"}

ReadOnlySyms == {"rodata"}

IsExternSymbol(sym) == sym \in {"global", "rodata", "runtime.newobject", "runtime.makeslice"}

\* Value constructor
Val(op, typ, auxint, aux, args, block) ==
    [op |-> op, typ |-> typ, auxint |-> auxint, aux |-> aux, args |-> args, block |-> block]

\* Block constructor; control = 0 is a nil control value
Blk(kind, values, control, preds, succs) ==
    [kind |-> kind, values |-> values, control |-> control, preds |-> preds, succs |-> succs]

\* all value IDs in the iteration order "for b in f.Blocks, for v in b.Values"
RECURSIVE ValuesFrom(_, _)
ValuesFrom(f, bi) ==
    IF bi > Len(f.blocks) THEN <<>>
    ELSE f.blocks[bi].values \o ValuesFrom(f, bi + 1)

AllValues(f) == ValuesFrom(f, 1)

\* sdom.isAncestorEq(a, b): block a dominates block b (idom[entry] = 0)
RECURSIVE isAncestorEq(_, _, _)
isAncestorEq(f, a, b) ==
    IF a = b THEN TRUE
    ELSE IF b = 0 \/ f.idom[b] = 0 THEN FALSE
    ELSE isAncestorEq(f, a, f.idom[b])

\* (*Value).MemoryArg: the last argument, if it is memory-typed; 0 = nil
MemoryArg(f, id) ==
    LET args == f.vals[id].args
    IN  IF Len(args) > 0 /\ IsMemory(f.vals[args[Len(args)]].typ)
        THEN args[Len(args)] ELSE 0

(***************************************************************************)
(* The alias partitioning engine.                                          *)
(***************************************************************************)
mustNotAlias == -1
mayAlias == 0
mustAlias == 1
\* outcome of a query that aborts the compilation (Fatalf or a run-time panic)
aborted == 2

ptrAlloc == "ptrAlloc"
ptrNoalias == "ptrNoalias"
ptrReadonly == "ptrReadonly"

\* size of a pointer of the target (f.Config.Types.BytePtr.Size())
ptrsize == 8

knownAllocs ==
    << [byteoff |-> 0, ptroff |-> 1, name |-> "runtime.newobject"],
       [byteoff |-> 0, ptroff |-> 3, name |-> "runtime.makeslice"],
       [byteoff |-> 16, ptroff |-> 1, name |-> "runtime.makeslice64"],
       [byteoff |-> 0, ptroff |-> 2, name |-> "runtime.newarray"],
       [byteoff |-> 0, ptroff |-> 5, name |-> "runtime.growslice"] >>

\* a.infoFor(v): index into a.info, 0 when the value has no partition info
infoFor(a, id) == a.idinfo[id]

partition(a, id) ==
    IF infoFor(a, id) # 0 THEN a.info[infoFor(a, id)].partition ELSE -1

isAlloc(a, id) ==
    IF infoFor(a, id) # 0 THEN ptrAlloc \in a.info[infoFor(a, id)].flags ELSE FALSE

\* isNoalias with any value that has partition info counted as Noalias
isNoalias_anyPartition(a, id) == infoFor(a, id) # 0

isNoalias(a, id) ==
    IF infoFor(a, id) # 0 THEN ptrNoalias \in a.info[infoFor(a, id)].flags ELSE FALSE

isReadOnly(a, id) ==
    IF infoFor(a, id) # 0 THEN ptrReadonly \in a.info[infoFor(a, id)].flags ELSE FALSE

addPointer(a, id, flags) ==
    LET info2 == Append(a.info, [partition |-> a.partitions, flags |-> flags])
    IN  [idinfo |-> [a.idinfo EXCEPT ![id] = Len(info2)],
         info |-> info2,
         partitions |-> a.partitions + 1]

\* setEquivalent with the equivalence not recorded
setEquivalent_dropped(a, old, ptr) == a

setEquivalent(a, old, ptr) ==
    [a EXCEPT !.idinfo[ptr] = a.idinfo[old]]

\* find the base pointer of this address calculation
RECURSIVE ptrbase(_, _)
ptrbase(f, id) ==
    IF f.vals[id].op \in {"OffPtr", "AddPtr", "PtrIndex", "Copy"}
    THEN ptrbase(f, f.vals[id].args[1])
    ELSE id

\* ensure that the base pointer of v is not marked Noalias
escape(f, a, id) ==
    LET base == ptrbase(f, id)
    IN  IF partition(a, base) # -1
        THEN [a EXCEPT !.info[a.idinfo[base]].flags = @ \ {ptrNoalias}]
        ELSE a

\* Is this value the result load of a known allocator call?
\* Returns the value ID of the call site and whether it matched.
isheap(f, id, psize) ==
    LET v == f.vals[id]
    IN  IF /\ v.op = "Load"
           /\ f.vals[v.args[1]].op = "OffPtr"
           /\ f.vals[v.args[2]].op = "StaticCall"
           /\ f.vals[f.vals[v.args[1]].args[1]].op = "SP"
           /\ \E k \in 1..Len(knownAllocs) :
                /\ f.vals[v.args[1]].auxint = knownAllocs[k].ptroff * psize + knownAllocs[k].byteoff
                /\ f.vals[v.args[2]].aux = knownAllocs[k].name
        THEN [id |-> v.args[2], ok |-> TRUE]
        ELSE [id |-> 0, ok |-> FALSE]

\* first loop of aa.init: create the partitions
RECURSIVE initPartitions(_, _, _, _, _)
initPartitions(f, order, a, sympart, lastsp) ==
    IF order = <<>> THEN a
    ELSE
      LET id == Head(order)
          v == f.vals[id]
          rest == Tail(order)
      IN  CASE v.op = "Load" ->
                 LET h == isheap(f, id, ptrsize)
                 IN  IF h.ok
                     THEN initPartitions(f, rest, addPointer(a, h.id, {ptrAlloc, ptrNoalias}), sympart, lastsp)
                     ELSE initPartitions(f, rest, a, sympart, lastsp)
            [] v.op = "SP" ->
                 IF lastsp = 0
                 THEN initPartitions(f, rest, addPointer(a, id, {ptrNoalias}), sympart, id)
                 ELSE initPartitions(f, rest, setEquivalent(a, lastsp, id), sympart, id)
            [] v.op = "Addr" ->
                 LET flags == IF f.vals[v.args[1]].op = "SP" THEN {ptrNoalias}
                              ELSE IF IsExternSymbol(v.aux) /\ v.aux \in ReadOnlySyms
                                   THEN {ptrReadonly} ELSE {}
                 IN  IF v.aux \notin DOMAIN sympart
                     THEN initPartitions(f, rest, addPointer(a, id, flags), sympart @@ (v.aux :> id), lastsp)
                     ELSE initPartitions(f, rest, setEquivalent(a, sympart[v.aux], id), sympart, lastsp)
            [] OTHER -> initPartitions(f, rest, a, sympart, lastsp)

\* second loop of aa.init: demote the partitions whose pointers are stored
RECURSIVE initEscapes(_, _, _)
initEscapes(f, order, a) ==
    IF order = <<>> THEN a
    ELSE
      LET id == Head(order)
          v == f.vals[id]
          rest == Tail(order)
      IN  IF IsMemory(v.typ) /\ Len(v.args) > 1
          THEN IF v.op \in {"VarDef", "VarKill", "VarLive", "Phi", "KeepAlive", "Zero", "ZeroWB"}
               THEN initEscapes(f, rest, a)
               ELSE IF ~IsPtrShaped(f.vals[v.args[2]].typ)
                    THEN initEscapes(f, rest, a)
                    ELSE initEscapes(f, rest, escape(f, a, v.args[2]))
          ELSE IF v.op = "Convert" /\ IsPtrShaped(f.vals[v.args[1]].typ)
               THEN initEscapes(f, rest, escape(f, a, v.args[1]))
               ELSE initEscapes(f, rest, a)

\* aa.init(f)
init(f) ==
    LET empty == [idinfo |-> [id \in 1..Len(f.vals) |-> 0], info |-> <<>>, partitions |-> 0]
        parts == initPartitions(f, AllValues(f), empty, <<>>, 0)
    IN  initEscapes(f, AllValues(f), parts)

\* peel away OffPtr and Copy ops
RECURSIVE offsplitFrom(_, _, _)
offsplitFrom(f, id, off) ==
    CASE f.vals[id].op = "OffPtr" -> offsplitFrom(f, f.vals[id].args[1], off + f.vals[id].auxint)
      [] f.vals[id].op = "Copy" -> offsplitFrom(f, f.vals[id].args[1], off)
      [] OTHER -> [id |-> id, off |-> off]

offsplit(f, id) == offsplitFrom(f, id, 0)

\* overlap with the operands not ordered by offset first
overlap_unordered(off0, width0, off1, width1) == off0 + width0 > off1

overlap(off0, width0, off1, width1) ==
    IF off0 > off1 THEN off1 + width1 > off0 ELSE off0 + width0 > off1

RECURSIVE alias(_, _, _, _, _, _)

\* the pairwise comparison loop at the end of phialias
allAgree(f, a, bvalues, bwidth, cvalues, cwidth, ret) ==
    \A i \in 1..Len(bvalues) : \A j \in 1..Len(cvalues) :
        alias(f, a, bvalues[i], bwidth, cvalues[j], cwidth) = ret

phialias(f, a, b, bwidth, c, cwidth) ==
    IF (f.vals[b].op # "Phi" /\ Len(f.vals[b].args) = 0)
         \/ (f.vals[c].op # "Phi" /\ Len(f.vals[c].args) = 0)
    THEN aborted   \* b.Args[0] / c.Args[0]: index out of range
    ELSE
      LET bvalues == IF f.vals[b].op = "Phi" THEN f.vals[b].args ELSE <<f.vals[b].args[1]>>
          cvalues == IF f.vals[c].op = "Phi" THEN f.vals[c].args ELSE <<f.vals[c].args[1]>>
      IN  IF Len(bvalues) + Len(cvalues) <= 2 THEN aborted
          ELSE IF \E i \in 1..Len(bvalues) : f.vals[bvalues[i]].op = "Phi" THEN mayAlias
          ELSE IF \E j \in 1..Len(cvalues) : f.vals[cvalues[j]].op = "Phi" THEN mayAlias
          ELSE LET ret == alias(f, a, bvalues[1], bwidth, cvalues[1], cwidth)
               IN  IF ret = mayAlias THEN mayAlias
                   ELSE IF allAgree(f, a, bvalues, bwidth, cvalues, cwidth, ret)
                        THEN ret ELSE mayAlias

\* alias, from "bbase, cbase := ptrbase(b), ptrbase(c)" on: neither is a phi
aliasBases(f, a, b, bwidth, c, cwidth) ==
    LET bbase == ptrbase(f, b)
        cbase == ptrbase(f, c)
        bs == offsplit(f, b)
        cs == offsplit(f, c)
        bpart == partition(a, bbase)
        cpart == partition(a, cbase)
    IN  IF bbase = cbase
        THEN IF bs.id = cs.id
             THEN IF bs.off = cs.off /\ bwidth = cwidth THEN mustAlias
                  ELSE IF overlap(bs.off, bwidth, cs.off, cwidth) THEN mayAlias
                  ELSE mustNotAlias
             ELSE mayAlias
        ELSE IF bpart # cpart /\ bpart # -1 /\ cpart # -1 THEN mustNotAlias
        ELSE IF bpart = cpart THEN mayAlias
        ELSE IF isNoalias(a, bbase) \/ isNoalias(a, cbase) THEN mustNotAlias
        ELSE IF isAlloc(a, bbase) /\ isAlloc(a, cbase) THEN aborted
        ELSE IF isAlloc(a, bbase)
                /\ (f.vals[cbase].op = "Arg"
                    \/ ~isAncestorEq(f, f.vals[bbase].block, f.vals[cbase].block))
             THEN mustNotAlias
        ELSE IF isAlloc(a, cbase)
                /\ (f.vals[bbase].op = "Arg"
                    \/ ~isAncestorEq(f, f.vals[cbase].block, f.vals[bbase].block))
             THEN mustNotAlias
        ELSE mayAlias

\* alias with phis dispatched before the identity test
alias_phiFirst(f, a, b, bwidth, c, cwidth) ==
    IF f.vals[b].op = "Phi" \/ f.vals[c].op = "Phi"
    THEN phialias(f, a, b, bwidth, c, cwidth)
    ELSE IF b = c THEN (IF bwidth # cwidth THEN mayAlias ELSE mustAlias)
    ELSE aliasBases(f, a, b, bwidth, c, cwidth)

alias(f, a, b, bwidth, c, cwidth) ==
    IF b = c THEN (IF bwidth # cwidth THEN mayAlias ELSE mustAlias)
    ELSE IF f.vals[b].op = "Phi" \/ f.vals[c].op = "Phi"
    THEN phialias(f, a, b, bwidth, c, cwidth)
    ELSE aliasBases(f, a, b, bwidth, c, cwidth)

(***************************************************************************)
(* clobbers: must a memory-producing value be ordered with a load?         *)
(***************************************************************************)
\* opcodeTable[op].call
IsCall(op) == op \in {"StaticCall", "ClosureCall", "DeferCall", "GoCall", "InterCall"}

\* opcodeTable[op].hasSideEffects
HasSideEffects(op) ==
    op \in {"AtomicStore32", "AtomicStore64", "AtomicStorePtrNoWB", "AtomicExchange64",
            "AtomicAdd64", "AtomicCompareAndSwap64", "AtomicAnd8", "AtomicOr8"}

\* the GCNode of an auto or argument symbol; "" is nil
gcnode(sym) == IF sym \in AutoSyms \cup ArgSyms THEN sym ELSE ""

\* given a load or store operation, return its width
ptrwidth(f, id) ==
    IF f.vals[id].op = "Load" THEN TypeSize(f.vals[id].typ)
    ELSE TypeSize(f.vals[id].aux)

\* a call that would clobber every load
callClobbers_all(noalias, baseIsSP) == TRUE

\* "calls clobber everything except non-SP noalias pointers"
callClobbers(noalias, baseIsSP) == ~noalias \/ baseIsSP

\* isReadOnly consulted for no base
readOnlyBase_never(a, base) == FALSE

\* "no store operation clobbers data from read-only memory"
readOnlyBase(a, base) == isReadOnly(a, base)

\* clobbers with every memory operation reported as non-clobbering
clobbers_never(f, a, mem0, load) == FALSE

clobbers(f, a, mem0, load) ==
    LET mem == IF f.vals[mem0].op = "Select1" THEN f.vals[mem0].args[1] ELSE mem0
        op == f.vals[mem].op
        base == ptrbase(f, f.vals[load].args[1])
        noalias == isNoalias(a, base)
    IN  CASE op = "InitMem" -> TRUE
          [] op \in {"VarDef", "VarKill", "VarLive"} ->
               /\ f.vals[base].op = "Addr"
               /\ f.vals[f.vals[base].args[1]].op = "SP"
               /\ f.vals[mem].aux = gcnode(f.vals[base].aux)
          [] op = "KeepAlive" -> f.vals[mem].args[1] = load
          [] op \in {"Copy", "Convert"} -> FALSE
          [] OTHER ->
               IF readOnlyBase(a, base) THEN FALSE
               ELSE IF IsCall(op) THEN callClobbers(noalias, f.vals[base].op = "SP")
               ELSE IF HasSideEffects(op) \/ IsTuple(f.vals[mem].typ) THEN ~noalias
               ELSE alias(f, a, f.vals[mem].args[1], ptrwidth(f, mem),
                          f.vals[load].args[1], ptrwidth(f, load)) # mustNotAlias

(***************************************************************************)
(* tighten: the bounded clobber walk and the load motions.                 *)
(***************************************************************************)
maxmemwalk == 10

\* clobberwalk: no clobber of load between mem and end; set is the sparse
\* set of visited memory values, shared by the recursive calls
RECURSIVE clobberwalk(_, _, _, _, _, _)

\* a walk that would follow only the first argument of a memory phi
clobberwalkArgs_none(f, a, args, k, load, end, set) == [ok |-> TRUE, set |-> set]

\* the recursive calls for mem.Args[1:] of a memory phi
RECURSIVE clobberwalkArgs(_, _, _, _, _, _, _)
clobberwalkArgs(f, a, args, k, load, end, set) ==
    IF k > Len(args) THEN [ok |-> TRUE, set |-> set]
    ELSE LET r == clobberwalk(f, a, args[k], load, end, set)
         IN  IF ~r.ok THEN r
             ELSE clobberwalkArgs(f, a, args, k + 1, load, end, r.set)

\* the walk never gives up
walkfull_never(set) == FALSE

\* set.size() >= maxmemwalk
walkfull(set) == Cardinality(set) >= maxmemwalk

clobberwalk(f, a, mem, load, end, set) ==
    IF mem = end \/ mem \in set THEN [ok |-> TRUE, set |-> set]
    ELSE IF walkfull(set) THEN [ok |-> FALSE, set |-> set]
    ELSE LET set1 == set \cup {mem}
         IN  IF f.vals[mem].op = "Phi"
             THEN LET r == clobberwalkArgs(f, a, f.vals[mem].args, 2, load, end, set1)
                  IN  IF ~r.ok THEN r
                      ELSE clobberwalk(f, a, f.vals[mem].args[1], load, end, r.set)
             ELSE IF clobbers(f, a, mem, load) THEN [ok |-> FALSE, set |-> set1]
             ELSE clobberwalk(f, a, MemoryArg(f, mem), load, end, set1)

\* v.SetArg(i, w), with 1-based i
SetArg(f, v, i, w) == [f EXCEPT !.vals[v].args[i] = w]

\* hoistLoad: [ok, f]; on success the load's memory argument is the exit
\* memory value of the target block
hoistLoad(f, a, v, b, mr) ==
    LET exit == mr[b].exit
    IN  IF exit = 0 THEN [ok |-> FALSE, f |-> f]
        ELSE IF ~clobberwalk(f, a, MemoryArg(f, v), v, exit, {}).ok THEN [ok |-> FALSE, f |-> f]
        ELSE [ok |-> TRUE, f |-> SetArg(f, v, 2, exit)]

\* sinkLoad: [ok, f]; on success the load's memory argument is the entry
\* memory value of the target block
sinkLoad(f, a, v, b, mr) ==
    LET in == mr[b].entry
    IN  IF ~clobberwalk(f, a, in, v, MemoryArg(f, v), {}).ok THEN [ok |-> FALSE, f |-> f]
        ELSE [ok |-> TRUE, f |-> SetArg(f, v, 2, in)]

(***************************************************************************)
(* memranges: the entry and exit memory value of each block.               *)
(***************************************************************************)
\* f.postorder(): depth-first postorder of the control-flow graph
RECURSIVE postorderVisit(_, _, _)

RECURSIVE postorderSuccs(_, _, _, _)
postorderSuccs(f, succs, k, st) ==
    IF k > Len(succs) THEN st
    ELSE IF succs[k] \in st.seen THEN postorderSuccs(f, succs, k + 1, st)
    ELSE postorderSuccs(f, succs, k + 1, postorderVisit(f, succs[k], st))

postorderVisit(f, b, st) ==
    LET st1 == postorderSuccs(f, f.blocks[b].succs, 1, [seen |-> st.seen \cup {b}, order |-> st.order])
    IN  [seen |-> st1.seen, order |-> Append(st1.order, b)]

postorder(f) == postorderVisit(f, f.entry, [seen |-> {}, order |-> <<>>]).order

\* reverse of a sequence
Reverse(sq) == [k \in 1..Len(sq) |-> sq[Len(sq) + 1 - k]]

\* a removal that would truncate without moving the last value to place i
RemoveAt_truncate(values, i) == SubSeq(values, 1, Len(values) - 1)

\* removal of the i-th value of a block by swap-with-last and truncate
RemoveAt(values, i) ==
    LET last == Len(values)
    IN  SubSeq([values EXCEPT ![i] = values[last]], 1, last - 1)

\* Hoist InitMem to the entry block: [f, initmem].  A function without
\* InitMem gets a new one: NewValue0 takes a freed value (op "Free", in no
\* block), which keeps its ID, when there is one, and a new ID otherwise.
hoistinitmem(f) ==
    LET order == AllValues(f)
        found == {k \in 1..Len(order) : f.vals[order[k]].op = "InitMem"}
        free == {k \in 1..Len(f.vals) : f.vals[k].op = "Free"}
    IN  IF found = {} /\ free # {}
        THEN LET id == CHOOSE k \in free : \A j \in free : k <= j
             IN  [f |-> [f EXCEPT !.vals[id] = Val("InitMem", "Mem", 0, "", <<>>, f.entry),
                                  !.blocks[f.entry].values = Append(@, id)],
                  initmem |-> id]
        ELSE IF found = {}
        THEN LET id == Len(f.vals) + 1
             IN  [f |-> [f EXCEPT !.vals = Append(@, Val("InitMem", "Mem", 0, "", <<>>, f.entry)),
                                  !.blocks[f.entry].values = Append(@, id)],
                  initmem |-> id]
        ELSE LET v == order[CHOOSE k \in found : \A j \in found : k <= j]
                 b == f.vals[v].block
                 i == CHOOSE j \in 1..Len(f.blocks[b].values) : f.blocks[b].values[j] = v
             IN  IF b # f.entry
                 THEN [f |-> [f EXCEPT !.blocks[b].values = RemoveAt(@, i),
                                      !.blocks[f.entry].values = Append(@, v),
                                      !.vals[v].block = f.entry],
                       initmem |-> v]
                 ELSE [f |-> f, initmem |-> v]

\* a walklivemem whose inner loop would not walk at all
walkInBlock_noWalk(f, v, bb) == v

\* the inner loop of walklivemem: follow memory arguments inside block bb
RECURSIVE walkInBlock(_, _, _)
walkInBlock(f, v, bb) ==
    IF f.vals[v].block = bb /\ f.vals[v].op \notin {"Phi", "InitMem"}
    THEN walkInBlock(f, MemoryArg(f, v), bb)
    ELSE v

\* walk a memory value that is known to be live at the end of its block
RECURSIVE walklivemem(_, _, _)

\* "for a in args[k:]: if ranges[a.Block.ID].exit == nil { walklivemem(a, ranges) }"
RECURSIVE walkPhiArgs(_, _, _, _)
walkPhiArgs(f, args, k, ranges) ==
    IF k > Len(args) THEN ranges
    ELSE IF ranges[f.vals[args[k]].block].exit = 0
    THEN walkPhiArgs(f, args, k + 1, walklivemem(f, args[k], ranges))
    ELSE walkPhiArgs(f, args, k + 1, ranges)

walklivemem(f, v, ranges) ==
    LET bb == f.vals[v].block
    IN  IF ranges[bb].exit # 0 THEN ranges
        ELSE LET e == walkInBlock(f, v, bb)
                 r2 == [ranges EXCEPT ![bb] = [entry |-> e, exit |-> v]]
             IN  IF f.vals[e].block # bb THEN walklivemem(f, e, r2)
                 ELSE IF f.vals[e].op = "InitMem" THEN r2
                 ELSE walklivemem(f, f.vals[e].args[1], walkPhiArgs(f, f.vals[e].args, 2, r2))

\* the memory phis of a block, by position in b.Values
MemPhiPositions(f, b) ==
    {k \in 1..Len(f.blocks[b].values) :
        LET v == f.vals[f.blocks[b].values[k]] IN v.op = "Phi" /\ IsMemory(v.typ)}

\* first loop of memranges, over the blocks in reverse postorder
RECURSIVE memrangesWalk(_, _, _)
memrangesWalk(f, rpo, ranges) ==
    IF rpo = <<>> THEN ranges
    ELSE
      LET b == Head(rpo)
          c == f.blocks[b].control
          r1 == IF c # 0 /\ IsMemory(f.vals[c].typ) THEN walklivemem(f, c, ranges) ELSE ranges
          phis == MemPhiPositions(f, b)
      IN  IF phis = {} THEN memrangesWalk(f, Tail(rpo), r1)
          ELSE LET v == f.blocks[b].values[CHOOSE k \in phis : \A j \in phis : k <= j]
                   r2 == IF r1[b].entry = 0 THEN [r1 EXCEPT ![b].entry = v] ELSE r1
               IN  memrangesWalk(f, Tail(rpo), walkPhiArgs(f, f.vals[v].args, 1, r2))

\* one pass of the last loop of memranges: [ranges, done]
RECURSIVE memrangesFill(_, _, _, _)
memrangesFill(f, rpo, ranges, done) ==
    IF rpo = <<>> THEN [ranges |-> ranges, done |-> done]
    ELSE
      LET b == Head(rpo)
          r == ranges[b]
      IN  IF r.exit # 0 THEN memrangesFill(f, Tail(rpo), ranges, done)
          ELSE IF r.entry # 0
          THEN memrangesFill(f, Tail(rpo), [ranges EXCEPT ![b].exit = r.entry], done)
          ELSE IF ranges[f.idom[b]].exit = 0
          THEN memrangesFill(f, Tail(rpo), ranges, FALSE)
          ELSE memrangesFill(f, Tail(rpo),
                             [ranges EXCEPT ![b] = [entry |-> ranges[f.idom[b]].exit,
                                                    exit |-> ranges[f.idom[b]].exit]], done)

RECURSIVE memrangesFixpoint(_, _, _)
memrangesFixpoint(f, rpo, ranges) ==
    LET r == memrangesFill(f, rpo, ranges, TRUE)
    IN  IF r.done THEN r.ranges ELSE memrangesFixpoint(f, rpo, r.ranges)

\* memranges(f): [f, ranges]; f changes when InitMem is hoisted
memranges(f) ==
    LET h == hoistinitmem(f)
        g == h.f
        rpo == Reverse(postorder(g))
        r0 == [b \in 1..Len(g.blocks) |->
                 [entry |-> IF b = g.entry THEN h.initmem ELSE 0, exit |-> 0]]
        r1 == memrangesWalk(g, rpo, r0)
        r2 == IF r1[g.entry].exit = 0 THEN [r1 EXCEPT ![g.entry].exit = h.initmem] ELSE r1
    IN  [f |-> g, ranges |-> memrangesFixpoint(g, rpo, r2)]

(***************************************************************************)
(* tighten: which values may move, and where to.                           *)
(***************************************************************************)
ValueIDs(f) == 1..Len(f.vals)

BlockIDs(f) == 1..Len(f.blocks)

\* v.Uses: the uses of v as an argument and as a control value
Uses(f, id) ==
    Cardinality({<<u, k>> \in ValueIDs(f) \X (1..3) :
                    k <= Len(f.vals[u].args) /\ f.vals[u].args[k] = id})
    + Cardinality({b \in BlockIDs(f) : f.blocks[b].control = id})

\* arguments which will need a register
narg(f, id) ==
    Cardinality({k \in 1..Len(f.vals[id].args) :
                    f.vals[f.vals[id].args[k]].op \notin {"Const8", "Const16", "Const32", "Const64", "Addr"}})

\* a first loop that would leave out the switch on the pinned operations
canMoveInit_unpinned(f, id) ==
    LET v == f.vals[id]
    IN  IF Uses(f, id) = 0 THEN FALSE
        ELSE IF v.op = "Load" /\ f.vals[ptrbase(f, v.args[1])].op \in {"SP", "Addr"} THEN TRUE
        ELSE IF MemoryArg(f, id) # 0 THEN FALSE
        ELSE IF narg(f, id) >= 2 /\ ~IsBoolean(v.typ) THEN FALSE
        ELSE TRUE

\* the first loop of tighten: canMove[v.ID]
canMoveInit(f, id) ==
    LET v == f.vals[id]
    IN  IF Uses(f, id) = 0 THEN FALSE
        ELSE IF v.op \in {"Phi", "GetClosurePtr", "Arg", "Select0", "Select1", "InitMem"} THEN FALSE
        ELSE IF v.op = "Load" /\ f.vals[ptrbase(f, v.args[1])].op \in {"SP", "Addr"} THEN TRUE
        ELSE IF MemoryArg(f, id) # 0 THEN FALSE
        ELSE IF narg(f, id) >= 2 /\ ~IsBoolean(v.typ) THEN FALSE
        ELSE TRUE

\* lca.find(a, b): least common ancestor in the dominator tree
RECURSIVE lcaFind(_, _, _)
lcaFind(f, a, b) ==
    IF isAncestorEq(f, a, b) THEN a ELSE lcaFind(f, f.idom[a], b)

\* argUses with a phi use counted as a use in the phi's own block
RECURSIVE argUses_phiOwnBlock(_, _, _)
argUses_phiOwnBlock(f, b, k) ==
    IF k > Len(f.blocks[b].values) THEN <<>>
    ELSE LET v == f.vals[f.blocks[b].values[k]]
         IN  [i \in 1..Len(v.args) |-> <<v.args[i], b>>] \o argUses_phiOwnBlock(f, b, k + 1)

\* the uses <<value, block of the use>> of the arguments of b.Values[k..]
RECURSIVE argUses(_, _, _)
argUses(f, b, k) ==
    IF k > Len(f.blocks[b].values) THEN <<>>
    ELSE LET v == f.vals[f.blocks[b].values[k]]
         IN  [i \in 1..Len(v.args) |->
                 <<v.args[i], IF v.op = "Phi" THEN f.blocks[b].preds[i] ELSE b>>]
             \o argUses(f, b, k + 1)

\* all uses in the order tighten visits them: per block, the arguments of
\* its values, then its control value
RECURSIVE useList(_, _)
useList(f, b) ==
    IF b > Len(f.blocks) THEN <<>>
    ELSE argUses(f, b, 1)
         \o (IF f.blocks[b].control # 0 THEN << <<f.blocks[b].control, b>> >> ELSE <<>>)
         \o useList(f, b + 1)

\* target location = the least common ancestor of all uses
RECURSIVE foldTargets(_, _, _, _)
foldTargets(f, canMove, uses, target) ==
    IF uses = <<>> THEN target
    ELSE LET a == Head(uses)[1]
             use == Head(uses)[2]
         IN  IF ~canMove[a] THEN foldTargets(f, canMove, Tail(uses), target)
             ELSE IF target[a] = 0
             THEN foldTargets(f, canMove, Tail(uses), [target EXCEPT ![a] = use])
             ELSE foldTargets(f, canMove, Tail(uses), [target EXCEPT ![a] = lcaFind(f, target[a], use)])

\* liftTarget with targets inside deeper loops kept
liftTarget_kept(f, origloop, t) == t

\* liftTarget with a target in any loop, the value's own included, moved to
\* the entry block
liftTarget_entry(f, origloop, t) == IF f.b2l[t] # 0 THEN f.entry ELSE t

\* move t up to just before the loop head while it is in a deeper loop
RECURSIVE liftTarget(_, _, _)
liftTarget(f, origloop, t) ==
    LET targetloop == f.b2l[t]
    IN  IF targetloop # 0
           /\ (origloop = 0 \/ f.loops[targetloop].depth > f.loops[origloop].depth)
        THEN liftTarget(f, origloop, f.idom[f.loops[targetloop].header])
        ELSE t

\* the block whose value list holds v
HolderOf(f, v) ==
    CHOOSE b \in BlockIDs(f) : \E k \in 1..Len(f.blocks[b].values) : f.blocks[b].values[k] = v

adjustTargets(f, target) ==
    [v \in ValueIDs(f) |->
        IF target[v] = 0 THEN 0
        ELSE liftTarget(f, f.b2l[HolderOf(f, v)], target[v])]

computeTargets(f, canMove) ==
    adjustTargets(f, foldTargets(f, canMove, useList(f, 1), [v \in ValueIDs(f) |-> 0]))

\* a phielimValue that would replace any phi by a copy of its first argument
phielimValue_first(f, v) ==
    IF f.vals[v].op = "Phi"
    THEN [f EXCEPT !.vals[v].op = "Copy", !.vals[v].args = <<f.vals[v].args[1]>>]
    ELSE f

(***************************************************************************)
(* storeforward: following the memory chain of a load.                     *)
(***************************************************************************)
\* phielimValue(v): a phi whose arguments other than itself are all the
\* same value w becomes (Copy w)
phielimValue(f, v) ==
    LET others == {f.vals[v].args[k] : k \in 1..Len(f.vals[v].args)} \ {v}
    IN  IF f.vals[v].op = "Phi" /\ Cardinality(others) = 1
        THEN [f EXCEPT !.vals[v].op = "Copy", !.vals[v].args = <<CHOOSE w \in others : TRUE>>]
        ELSE f

\* a NewValue0 that would always allocate in the entry block
NewValue_inEntry(f, b, op, typ, args) ==
    LET id == Len(f.vals) + 1
    IN  [f |-> [f EXCEPT !.vals = Append(@, Val(op, typ, 0, "", args, f.entry)),
                         !.blocks[f.entry].values = Append(@, id)],
         id |-> id]

\* b.NewValue0(pos, op, t): [f, id] with the new value appended to block b
NewValue(f, b, op, typ, args) ==
    LET id == Len(f.vals) + 1
    IN  [f |-> [f EXCEPT !.vals = Append(@, Val(op, typ, 0, "", args, b)),
                         !.blocks[b].values = Append(@, id)],
         id |-> id]

\* f.constVal(op, t, 0): the cached constant of this op and type, or a new
\* one in the entry block
constVal(f, op, typ) ==
    LET hit == {k \in 1..Len(f.consts) :
                  f.vals[f.consts[k]].op = op /\ f.vals[f.consts[k]].typ = typ}
    IN  IF hit # {}
        THEN [f |-> f, val |-> f.consts[CHOOSE k \in hit : \A j \in hit : k <= j]]
        ELSE LET n == NewValue(f, f.entry, op, typ, <<>>)
             IN  [f |-> [n.f EXCEPT !.consts = Append(@, n.id)], val |-> n.id]

\* constzero: [f, val], val = 0 for nil
constzero(f, t) ==
    LET width == TypeSize(t)
        isfp == IsFloat(t)
    IN  IF IsPtrShaped(t) THEN constVal(f, "ConstNil", t)
        ELSE CASE width = 8 -> constVal(f, IF isfp THEN "Const64F" ELSE "Const64", t)
               [] width = 4 -> constVal(f, IF isfp THEN "Const32F" ELSE "Const32", t)
               [] width = 2 -> constVal(f, "Const16", t)
               [] width = 1 -> constVal(f, IF IsBoolean(t) THEN "ConstBool" ELSE "Const8", t)
               [] OTHER -> [f |-> f, val |-> 0]

\* a memory phi is followed at most this deep and this wide
maxphifollow == 10

\* loadfollow and phifollow yield [f, val, ev]: the function (phielimValue
\* and the new phis change it), the forwarded value (0 = nil), and ev, the
\* stores and zeroes the value was taken from, each with the memory values
\* walked over on the way to it
RECURSIVE loadfollow(_, _, _, _, _, _)

RECURSIVE phifollowArgs(_, _, _, _, _, _, _, _, _)

\* the loop over phi.Args of phifollow; args holds the results so far
phifollowArgs(f, a, v, phi, stack, walked, i, args, ev) ==
    IF i > Len(f.vals[phi].args) THEN [f |-> f, ok |-> TRUE, args |-> args, ev |-> ev]
    ELSE LET phiarg == f.vals[phi].args[i]
             seen == {j \in 1..(i - 1) : f.vals[phi].args[j] = phiarg}
         IN  IF seen # {}
             THEN phifollowArgs(f, a, v, phi, stack, walked, i + 1,
                                Append(args, args[CHOOSE j \in seen : \A k \in seen : j <= k]), ev)
             ELSE LET r == loadfollow(f, a, v, phiarg, stack, walked)
                  IN  IF r.val = 0 THEN [f |-> r.f, ok |-> FALSE, args |-> args, ev |-> {}]
                      ELSE phifollowArgs(r.f, a, v, phi, stack, walked, i + 1,
                                         Append(args, r.val), ev \cup r.ev)

phifollow(f, a, v, phi, stack, walked) ==
    IF Len(stack) >= maxphifollow \/ Len(f.vals[phi].args) >= maxphifollow
    THEN [f |-> f, val |-> 0, ev |-> {}]
    ELSE IF \E k \in 1..Len(stack) : stack[k] = phi
    THEN [f |-> f, val |-> 0, ev |-> {}]
    ELSE LET r == phifollowArgs(f, a, v, phi, Append(stack, phi), walked, 1, <<>>, {})
         IN  IF ~r.ok THEN [f |-> r.f, val |-> 0, ev |-> {}]
             ELSE LET newid == Len(r.f.vals) + 1
                      n == NewValue(r.f, r.f.vals[phi].block, "Phi", r.f.vals[v].typ,
                                    [k \in 1..Len(r.args) |->
                                        IF r.args[k] = phi THEN newid ELSE r.args[k]])
                  IN  [f |-> phielimValue(n.f, n.id), val |-> n.id, ev |-> r.ev]

loadfollow(f0, a, v, mem, stack, walked) ==
    IF f0.vals[mem].op = "InitMem" THEN [f |-> f0, val |-> 0, ev |-> {}]
    ELSE LET f == phielimValue(f0, mem)
             from == f.vals[v].args[1]
             m == f.vals[mem]
         IN  IF m.op = "Phi"
             THEN IF Len(stack) > 0 /\ mem = stack[Len(stack)]
                  THEN [f |-> f, val |-> mem, ev |-> {}]
                  ELSE phifollow(f, a, v, mem, stack, walked)
             ELSE IF /\ m.op \in {"Zero", "ZeroWB"}
                     /\ m.args[1] = ptrbase(f, from)
                     /\ offsplit(f, from).id = m.args[1]
                     /\ offsplit(f, from).off + TypeSize(f.vals[from].typ) <= m.auxint
             THEN LET z == constzero(f, f.vals[v].typ)
                  IN  [f |-> z.f, val |-> z.val,
                       ev |-> IF z.val = 0 THEN {}
                              ELSE {[kind |-> "zero", src |-> mem, val |-> z.val, walked |-> walked]}]
             ELSE IF /\ m.op \in {"Store", "StoreWB"}
                     /\ alias(f, a, m.args[1], TypeSize(m.aux), from, TypeSize(f.vals[v].typ)) = mustAlias
             THEN IF IsFloat(f.vals[v].typ) # IsFloat(f.vals[m.args[2]].typ)
                  THEN [f |-> f, val |-> 0, ev |-> {}]
                  ELSE [f |-> f, val |-> m.args[2],
                        ev |-> {[kind |-> "store", src |-> mem, val |-> m.args[2], walked |-> walked]}]
             ELSE IF clobbers(f, a, mem, v) THEN [f |-> f, val |-> 0, ev |-> {}]
             ELSE loadfollow(f, a, v, MemoryArg(f, mem), stack, walked \cup {mem})

(***************************************************************************)
(* loadshuffle: the live memory value at each block's exit, the dependency *)
(* search, and the sinking of one load along the stores of its block.      *)
(***************************************************************************)
\* walklivemem of memexits: only the exit value of each block is recorded
RECURSIVE walkexit(_, _, _)

RECURSIVE walkexitArgs(_, _, _, _)
walkexitArgs(f, args, k, exits) ==
    IF k > Len(args) THEN exits
    ELSE IF exits[f.vals[args[k]].block] = 0
    THEN walkexitArgs(f, args, k + 1, walkexit(f, args[k], exits))
    ELSE walkexitArgs(f, args, k + 1, exits)

walkexit(f, v, exits) ==
    LET bb == f.vals[v].block
    IN  IF exits[bb] # 0 THEN exits
        ELSE LET e == walkInBlock(f, v, bb)
                 x2 == [exits EXCEPT ![bb] = v]
             IN  IF f.vals[e].block # bb THEN walkexit(f, e, x2)
                 ELSE IF f.vals[e].op = "InitMem" THEN x2
                 ELSE walkexit(f, f.vals[e].args[1], walkexitArgs(f, f.vals[e].args, 2, x2))

\* first loop of memexits, over f.Blocks
RECURSIVE memexitsWalk(_, _, _)
memexitsWalk(f, b, exits) ==
    IF b > Len(f.blocks) THEN exits
    ELSE
      LET c == f.blocks[b].control
          x1 == IF c # 0 /\ IsMemory(f.vals[c].typ) THEN walkexit(f, c, exits) ELSE exits
          phis == MemPhiPositions(f, b)
      IN  IF phis = {} THEN memexitsWalk(f, b + 1, x1)
          ELSE LET v == f.blocks[b].values[CHOOSE k \in phis : \A j \in phis : k <= j]
               IN  memexitsWalk(f, b + 1, walkexitArgs(f, f.vals[v].args, 1, x1))

\* one pass of the last loop of memexits: [exits, done]
RECURSIVE memexitsFill(_, _, _, _)
memexitsFill(f, rpo, exits, done) ==
    IF rpo = <<>> THEN [exits |-> exits, done |-> done]
    ELSE LET b == Head(rpo)
         IN  IF exits[b] # 0 THEN memexitsFill(f, Tail(rpo), exits, done)
             ELSE IF exits[f.idom[b]] = 0 THEN memexitsFill(f, Tail(rpo), exits, FALSE)
             ELSE memexitsFill(f, Tail(rpo), [exits EXCEPT ![b] = exits[f.idom[b]]], done)

RECURSIVE memexitsFixpoint(_, _, _)
memexitsFixpoint(f, rpo, exits) ==
    LET r == memexitsFill(f, rpo, exits, TRUE)
    IN  IF r.done THEN r.exits ELSE memexitsFixpoint(f, rpo, r.exits)

\* memexits(f): [f, exits]; f changes when InitMem is hoisted
memexits(f) ==
    LET h == hoistinitmem(f)
        g == h.f
        x1 == memexitsWalk(g, 1, [b \in 1..Len(g.blocks) |-> 0])
        x2 == IF x1[g.entry] = 0 THEN [x1 EXCEPT ![g.entry] = h.initmem] ELSE x1
    IN  [f |-> g, exits |-> memexitsFixpoint(g, Reverse(postorder(g)), x2)]

\* finddep: is "end" among the transitive arguments of v inside block b?
\* [found, searched]
RECURSIVE finddep(_, _, _, _, _)

RECURSIVE finddepArgs(_, _, _, _, _, _)
finddepArgs(f, args, k, b, end, searched) ==
    IF k > Len(args) THEN [found |-> FALSE, searched |-> searched]
    ELSE LET r == finddep(f, args[k], b, end, searched)
         IN  IF r.found THEN r ELSE finddepArgs(f, args, k + 1, b, end, r.searched)

finddep(f, v, b, end, searched) ==
    IF f.vals[v].block # b \/ v \in searched THEN [found |-> FALSE, searched |-> searched]
    ELSE IF v = end THEN [found |-> TRUE, searched |-> searched]
    ELSE LET s1 == searched \cup {v}
             args == f.vals[v].args
         IN  IF Len(args) = 0 THEN [found |-> FALSE, searched |-> s1]
             ELSE LET r == finddepArgs(f, args, 2, b, end, s1)
                  IN  IF r.found THEN r ELSE finddep(f, args[1], b, end, r.searched)

\* a dependency search that would find nothing
depends_never(f, x, y) == FALSE

\* does x transitively depend on y?
depends(f, x, y) == finddep(f, x, f.vals[x].block, y, {}).found

\* a store of block b: a memory value of b that is neither a phi nor InitMem
storeIn(f, x, b) == f.vals[x].block = b /\ f.vals[x].op \notin {"Phi", "InitMem"}

\* "number the stores in this block in reverse order": [storenumber, num]
RECURSIVE numberStores(_, _, _, _, _)
numberStores(f, b, store, storenumber, num) ==
    IF storeIn(f, store, b)
    THEN numberStores(f, b, MemoryArg(f, store), [storenumber EXCEPT ![store] = num], num + 1)
    ELSE [storenumber |-> storenumber, num |-> num]

\* first loop of sink: the highest store number among the memory arguments
\* of the load-like values that depend on v; -1 where sink returns 0
RECURSIVE sinkMin(_, _, _, _, _, _, _)
sinkMin(f, v, b, k, min, curstore, storenumber) ==
    IF k > Len(f.blocks[b].values) THEN min
    ELSE
      LET m == f.blocks[b].values[k]
      IN  IF m = v \/ f.vals[m].op \notin {"Load", "NilCheck", "Convert"} \/ ~depends(f, m, v)
          THEN sinkMin(f, v, b, k + 1, min, curstore, storenumber)
          ELSE LET arg == MemoryArg(f, m)
               IN  IF storeIn(f, arg, b)
                   THEN IF storenumber[arg] > min
                        THEN IF storenumber[arg] >= curstore THEN -1
                             ELSE sinkMin(f, v, b, k + 1, storenumber[arg], curstore, storenumber)
                        ELSE sinkMin(f, v, b, k + 1, min, curstore, storenumber)
                   ELSE -1

\* "rewind up to the lowest possible insertion point of v"
RECURSIVE sinkRewind(_, _, _, _)
sinkRewind(f, tail, min, storenumber) ==
    IF storenumber[tail] < min THEN sinkRewind(f, MemoryArg(f, tail), min, storenumber)
    ELSE tail

\* the walk back along the stores: the earliest store that is not preceded
\* by a clobber or a dependency of v (0 = nil)
RECURSIVE sinkWalk(_, _, _, _, _, _, _)
sinkWalk(f, a, v, b, tail, curparent, parent) ==
    IF storeIn(f, tail, b) /\ tail # curparent
    THEN sinkWalk(f, a, v, b, MemoryArg(f, tail), curparent,
                  IF clobbers(f, a, tail, v) \/ depends(f, tail, v) THEN 0
                  ELSE IF parent = 0 THEN tail ELSE parent)
    ELSE parent

\* a rewrite of the memory operand that would report no move
sinkResult_silent(f, v, parent, n) == [f |-> SetArg(f, v, 2, parent), n |-> 0]

\* "v.SetArg(1, parent); return curstore - storenumber[parent.ID]"
sinkResult(f, v, parent, n) == [f |-> SetArg(f, v, 2, parent), n |-> n]

\* sink: [f, n], n the number of stores the load was moved past
sink(f, a, v, b, tail, storenumber, max) ==
    LET curparent == f.vals[v].args[2]
        curstore == IF storeIn(f, curparent, b) THEN storenumber[curparent] ELSE max
        min == sinkMin(f, v, b, 1, 0, curstore, storenumber)
    IN  IF min = -1 THEN [f |-> f, n |-> 0]
        ELSE LET parent == sinkWalk(f, a, v, b, sinkRewind(f, tail, min, storenumber),
                                    curparent, 0)
             IN  IF parent # 0 /\ parent # curparent
                 THEN sinkResult(f, v, parent, curstore - storenumber[parent])
                 ELSE [f |-> f, n |-> 0]

\* blocks with more stores than this are skipped
maxblockstores == 200

(***************************************************************************)
(* The function of TestAliasBasic, extended with a second address of       *)
(* autotmp1, a second SP, non-constant and copied addresses, pointer phis, *)
(* a read-only symbol and the result of an allocator call.  The operand    *)
(* stored by store0 and the operand of the Convert are chosen per run.     *)
(***************************************************************************)
AliasVals(stored, convof) ==
    << Val("InitMem", "Mem", 0, "", <<>>, 1),                 \* 1 start
       Val("SP", "Invalid", 0, "", <<>>, 1),                  \* 2 sp
       Val("SB", "Invalid", 0, "", <<>>, 1),                  \* 3 sb
       Val("Arg", "BytePtr", 0, "", <<>>, 1),                 \* 4 arg
       Val("Addr", "Int64Ptr", 0, "retarg", <<2>>, 1),        \* 5 retptr
       Val("ConstBool", "Bool", 1, "", <<>>, 1),              \* 6 cond
       Val("Addr", "Int64Ptr", 0, "autotmp0", <<2>>, 1),      \* 7 auto0
       Val("Addr", "Int64Ptr", 0, "autotmp1", <<2>>, 1),      \* 8 auto1
       Val("Addr", "Int64Ptr", 0, "global", <<3>>, 1),        \* 9 global
       Val("OffPtr", "BytePtr", 0, "", <<7>>, 1),             \* 10 lo0
       Val("OffPtr", "BytePtr", 4, "", <<7>>, 1),             \* 11 hi0
       Val("OffPtr", "BytePtr", 4, "", <<7>>, 1),             \* 12 hi0_dup
       Val("Addr", "Int64Ptr", 0, "autotmp1", <<2>>, 1),      \* 13 auto1b
       Val("PtrIndex", "BytePtr", 0, "", <<7, 15>>, 1),       \* 14 idx = auto0[argi]
       Val("Arg", "Int64", 0, "", <<>>, 1),                   \* 15 argi
       Val("OffPtr", "BytePtr", 4, "", <<14>>, 1),            \* 16 offidx
       Val("Copy", "BytePtr", 0, "", <<11>>, 1),              \* 17 cpy
       Val("Phi", "BytePtr", 0, "", <<7, 8>>, 3),             \* 18 pphi = phi(auto0, auto1)
       Val("Convert", "UIntptr", 0, "", <<convof, 1>>, 1),    \* 19 conv
       Val("Arg", "BytePtr", 0, "", <<>>, 1),                 \* 20 arg2
       Val("SP", "Invalid", 0, "", <<>>, 1),                  \* 21 sp2
       Val("OffPtr", "BytePtr", 8, "", <<4>>, 1),             \* 22 offarg
       Val("Addr", "Int64Ptr", 0, "rodata", <<3>>, 1),        \* 23 roaddr
       Val("StaticCall", "Mem", 0, "runtime.newobject", <<1>>, 1), \* 24 call
       Val("OffPtr", "BytePtr", 8, "", <<2>>, 1),             \* 25 retoff
       Val("Load", "BytePtr", 0, "", <<25, 24>>, 1),          \* 26 newp
       Val("Store", "Mem", 0, "Int64", <<5, stored, 24>>, 1), \* 27 store0
       Val("Phi", "BytePtr", 0, "", <<4, 20>>, 3),            \* 28 argphi = phi(arg, arg2)
       Val("OffPtr", "BytePtr", 4, "", <<18>>, 3),            \* 29 offphi
       Val("StaticCall", "Mem", 0, "runtime.newobject", <<27>>, 2), \* 30 call2
       Val("Load", "BytePtr", 0, "", <<25, 30>>, 2) >>        \* 31 newp2

AliasFunc(stored, convof) ==
    [vals |-> AliasVals(stored, convof),
     blocks |-> << Blk("If", <<1, 2, 3, 4, 5, 6, 7, 8, 9, 10, 11, 12, 13, 15, 14, 16, 17,
                               19, 20, 21, 22, 23, 24, 25, 26, 27>>, 6, <<>>, <<2, 3>>),
                   Blk("Plain", <<30, 31>>, 0, <<1>>, <<3>>),
                   Blk("Exit", <<18, 28, 29>>, 27, <<1, 2>>, <<>>) >>,
     entry |-> 1,
     idom |-> <<0, 1, 1>>,
     b2l |-> <<0, 0, 0>>,
     loops |-> <<>>]

\* operands store0 may store, and operands the Convert may convert
StoredChoices == {6, 8, 11, 17, 18, 16, 19}

ConvChoices == {4, 8}

\* the pointer-shaped values (and the stack pointers) alias is asked about
AliasPointers == {2, 4, 5, 7, 8, 9, 10, 11, 12, 13, 14, 16, 17, 18, 20, 21, 22, 23, 25, 26, 28, 29, 31}

NoQuery == [kind |-> "none", b |-> 0, bw |-> 0, c |-> 0, cw |-> 0, res |-> 0]

NoAA == [idinfo |-> <<>>, info |-> <<>>, partitions |-> 0]

NoTighten == [phase |-> "off"]

NoForward == [phase |-> "off"]

NoShuffle == [phase |-> "off"]

NoJoin == [phase |-> "off"]

NoSplice == [phase |-> "off"]

\* no function is being compiled
NoFunc == [vals |-> <<>>, blocks |-> <<>>, entry |-> 0, idom |-> <<>>, b2l |-> <<>>, loops |-> <<>>]

(***************************************************************************)
(* Specification Spec: the alias engine is built for a function and then   *)
(* answers alias queries.                                                  *)
(***************************************************************************)
Init ==
    /\ fn \in {AliasFunc(s, c) : s \in StoredChoices, c \in ConvChoices}
    /\ aa = NoAA
    /\ pc = "new"
    /\ q = NoQuery
    /\ tg = NoTighten
    /\ sf = NoForward
    /\ ls = NoShuffle
    /\ jr = NoJoin
    /\ sp = NoSplice

\* var aa aliasAnalysis; aa.init(f)
AaInit ==
    /\ pc = "new"
    /\ aa' = init(fn)
    /\ pc' = "ready"
    /\ UNCHANGED <<ls, fn, q, tg, sf, jr, sp>>

\* rel := aa.alias(v0, awidth, v1, bwidth)
AliasQuery ==
    /\ pc = "ready"
    /\ \E b \in AliasPointers, c \in AliasPointers, bw \in Widths, cw \in Widths :
         q' = [kind |-> "alias", b |-> b, bw |-> bw, c |-> c, cw |-> cw,
               res |-> alias(fn, aa, b, bw, c, cw)]
    /\ pc' = "answered"
    /\ UNCHANGED <<ls, fn, aa, tg, sf, jr, sp>>

Next == AaInit \/ AliasQuery

Spec == Init /\ [][Next]_vars

(***************************************************************************)
(* A function with a loop nest for tighten:                                *)
(*   b1 -> b2;  b2 (head of loop 1) -> b3, b6;  b3 -> b4;                  *)
(*   b4 (head of loop 2, inside loop 1) -> b4, b5;  b5 -> b2;              *)
(*   b6 -> b7, b8;  b7 -> b9;  b8 -> b9;  b9 exits.                        *)
(* The blocks of x, y and the load, the address stored to in the loop and  *)
(* the operands of y and of the users are chosen per run.  Some functions  *)
(* have a chain of stores to autotmp0 in b6, longer or shorter than the    *)
(* bound of the clobber walk.                                              *)
(***************************************************************************)
\* <<block, memory argument>> of the load
LdChoices == << <<1, 1>>, <<1, 7>>, <<2, 8>>, <<6, 8>> >>

\* number of stores added to b6
PadChoices == {0, maxmemwalk - 1, maxmemwalk + 1}

\* the k-th added store has ID 19 + k
padStores(n) ==
    [k \in 1..n |-> Val("Store", "Mem", 0, "Int64", <<4, 6, IF k = 1 THEN 8 ELSE 18 + k>>, 6)]

TightenVals(p) ==
    << Val("InitMem", "Mem", 0, "", <<>>, 1),                          \* 1 mem
       Val("SP", "Invalid", 0, "", <<>>, 1),                           \* 2 sp
       Val("Arg", "Int64", 0, "", <<>>, 1),                            \* 3 arg
       Val("Addr", "Int64Ptr", 0, "autotmp0", <<2>>, 1),               \* 4 auto0
       Val("Addr", "Int64Ptr", 0, "autotmp1", <<2>>, 1),               \* 5 auto1
       Val("Const64", "Int64", 1, "", <<>>, 1),                        \* 6 c1
       Val("Store", "Mem", 0, "Int64", <<4, 6, 1>>, 1),                \* 7 s1
       Val("Phi", "Mem", 0, "", <<7, 14>>, 2),                         \* 8 mphi
       Val("Add64", "Int64", 0, "", <<3, 6>>, p.bx),                   \* 9 x
       Val("Mul64", "Int64", 0, "", <<p.yarg, 6>>, p.by),              \* 10 y
       Val("Load", "Int64", 0, "", <<5, LdChoices[p.ld][2]>>, LdChoices[p.ld][1]), \* 11 ld
       Val("Less64", "Bool", 0, "", <<3, 6>>, 1),                      \* 12 cond2
       Val("Less64", "Bool", 0, "", <<10, 3>>, p.by),                  \* 13 cond4
       Val("Store", "Mem", 0, "Int64", <<p.s5addr, 6, 8>>, 5),         \* 14 s5
       Val("Eq64", "Bool", 0, "", <<p.c6arg, 6>>,
           IF p.c6arg = 11 THEN LdChoices[p.ld][1] ELSE 1),            \* 15 cond6
       Val("Add64", "Int64", 0, "", <<p.u7arg, 6>>, 7),                \* 16 u7
       Val("Phi", "Int64", 0, "", <<p.phi1, p.phi2>>, 9),              \* 17 vphi
       Val("Addr", "Int64Ptr", 0, "retarg", <<2>>, 1),                 \* 18 retptr
       Val("Store", "Mem", 0, "Int64",
           <<18, 17, IF p.pad = 0 THEN 8 ELSE 19 + p.pad>>, 9) >>      \* 19 sret
    \o padStores(p.pad)

\* b.Values of block b: the values placed in b, in order of creation
RECURSIVE valuesIn(_, _, _)
valuesIn(vals, b, k) ==
    IF k > Len(vals) THEN <<>>
    ELSE (IF vals[k].block = b THEN <<k>> ELSE <<>>) \o valuesIn(vals, b, k + 1)

TightenFunc(p) ==
    LET vals == TightenVals(p)
        bl(kind, b, control, preds, succs) == Blk(kind, valuesIn(vals, b, 1), control, preds, succs)
    IN  [vals |-> vals,
         blocks |-> << bl("Plain", 1, 0, <<>>, <<2>>),
                       bl("If", 2, 12, <<1, 5>>, <<3, 6>>),
                       bl("Plain", 3, 0, <<2>>, <<4>>),
                       bl("If", 4, 13, <<3, 4>>, <<4, 5>>),
                       bl("Plain", 5, 0, <<4>>, <<2>>),
                       bl("If", 6, 15, <<2>>, <<7, 8>>),
                       bl("Plain", 7, 0, <<6>>, <<9>>),
                       bl("Plain", 8, 0, <<6>>, <<9>>),
                       bl("Exit", 9, 19, <<7, 8>>, <<>>) >>,
         entry |-> 1,
         idom |-> <<0, 1, 2, 3, 4, 2, 6, 6, 6>>,
         b2l |-> <<0, 1, 1, 2, 1, 0, 0, 0, 0>>,
         loops |-> << [header |-> 2, depth |-> 1], [header |-> 4, depth |-> 2] >>]

\* the functions that differ in nothing but the load, the users of the load
\* and the stores
PlainXY(p) == p.bx = 1 /\ p.by = 1 /\ p.yarg = 3 /\ p.phi1 = 16 /\ p.phi2 = 6

TightenParams ==
    {p \in [bx : {1, 2}, by : {1, 2, 3}, yarg : {9, 3}, ld : 1..4, s5addr : {4, 5},
            c6arg : {3, 11}, u7arg : {9, 11}, phi1 : {16, 9}, phi2 : {6, 10},
            pad : PadChoices] :
        p.pad = 0 \/ PlainXY(p)}

\* the blocks in which v is used: the block of a user, the block v
\* controls, the matching predecessor of the block of a phi user
UseBlocks(f, v) ==
    {f.vals[u].block : u \in {w \in 1..Len(f.vals) :
        f.vals[w].op # "Phi" /\ \E k \in 1..Len(f.vals[w].args) : f.vals[w].args[k] = v}}
    \cup {b \in 1..Len(f.blocks) : f.blocks[b].control = v}
    \cup {f.blocks[f.vals[uk[1]].block].preds[uk[2]] :
            uk \in {wk \in (1..Len(f.vals)) \X (1..2) :
                      /\ f.vals[wk[1]].op = "Phi"
                      /\ wk[2] <= Len(f.vals[wk[1]].args)
                      /\ f.vals[wk[1]].args[wk[2]] = v}}

\* every use of a value is dominated by the value's block
WellFormed(f) ==
    \A v \in 1..Len(f.vals) : \A u \in UseBlocks(f, v) : isAncestorEq(f, f.vals[v].block, u)

\* loop nesting depth of a block
depthOf(f, b) == IF f.b2l[b] = 0 THEN 0 ELSE f.loops[f.b2l[b]].depth

\* a failed load that would stay a candidate of the next iteration
markFailed_kept(canMove, v) == canMove

\* "Don't bother trying to move this load on a second pass."
markFailed(canMove, v) == [canMove EXCEPT ![v] = FALSE]

(***************************************************************************)
(* Specification SpecTighten: tighten(f), one step per loop iteration.     *)
(* tg.orig, tg.moved and tg.lifted record the history of the run: the      *)
(* block of each value at the start, the values relocated so far and the   *)
(* values whose target was moved out of a loop.  tg.log lists the attempts *)
(* of the move loop in order: the value, its block, the target, the memory *)
(* operand it had and the one it has after the attempt (0: none), whether  *)
(* hoistLoad was chosen, and the result;                                   *)
(* tg.pass counts the iterations of the fixed-point loop, tg.start is the  *)
(* function tighten was called with.                                       *)
(***************************************************************************)
InitTighten ==
    /\ fn \in {f \in {TightenFunc(p) : p \in TightenParams} : WellFormed(f)}
    /\ aa = NoAA
    /\ pc = "tighten"
    /\ q = NoQuery
    /\ tg = NoTighten
    /\ sf = NoForward
    /\ ls = NoShuffle
    /\ jr = NoJoin
    /\ sp = NoSplice

\* lines 21-90: canMove, the alias engine, the memory ranges
TightenStart ==
    /\ pc = "tighten"
    /\ LET m == memranges(fn)
       IN  /\ fn' = m.f
           /\ aa' = init(fn)
           /\ tg' = [phase |-> "run",
                     canMove |-> [v \in ValueIDs(fn) |-> canMoveInit(fn, v)],
                     target |-> [v \in ValueIDs(fn) |-> 0],
                     changed |-> TRUE, bi |-> 0, i |-> 0,
                     mr |-> m.ranges,
                     orig |-> [v \in ValueIDs(fn) |-> fn.vals[v].block],
                     moved |-> {}, lifted |-> {}, log |-> <<>>, pass |-> 0,
                     start |-> fn]
    /\ pc' = "loop"
    /\ UNCHANGED <<ls, q, sf, jr, sp>>

\* canMove and target are made with f.NumValues() entries before memranges
\* runs: a value created since has no entry
Unindexed(f, canMove) == {v \in ValueIDs(f) : v \notin DOMAIN canMove}

\* line 135: target[v.ID] for a value without an entry is an index out of
\* range, and the compiler panics
TightenPanic ==
    /\ pc = "loop"
    /\ tg.changed
    /\ Unindexed(fn, tg.canMove) # {}
    /\ pc' = "panic"
    /\ UNCHANGED <<ls, fn, aa, q, tg, sf, jr, sp>>

\* lines 91-146: a new pass computes the targets
TightenTargets ==
    /\ pc = "loop"
    /\ tg.changed
    /\ Unindexed(fn, tg.canMove) = {}
    /\ LET lca == foldTargets(fn, tg.canMove, useList(fn, 1), [v \in ValueIDs(fn) |-> 0])
           t == computeTargets(fn, tg.canMove)
       IN  tg' = [tg EXCEPT !.target = t, !.changed = FALSE, !.bi = 1, !.i = 1,
                            !.pass = @ + 1,
                            !.lifted = @ \cup {v \in ValueIDs(fn) : lca[v] # t[v]}]
    /\ pc' = "move"
    /\ UNCHANGED <<ls, fn, aa, q, sf, jr, sp>>

\* lines 149-183: one iteration of the move loops
TightenMove ==
    /\ pc = "move"
    /\ tg.bi <= Len(fn.blocks)
    /\ LET b == tg.bi
           i == tg.i
       IN  IF i > Len(fn.blocks[b].values)
           THEN /\ tg' = [tg EXCEPT !.bi = b + 1, !.i = 1]
                /\ fn' = fn
           ELSE LET v == fn.blocks[b].values[i]
                    t == tg.target[v]
                    r == IF fn.vals[v].op # "Load" THEN [ok |-> TRUE, f |-> fn]
                         ELSE IF isAncestorEq(fn, fn.vals[v].block, t)
                         THEN sinkLoad(fn, aa, v, t, tg.mr)
                         ELSE hoistLoad(fn, aa, v, t, tg.mr)
                    attempt == [v |-> v, from |-> b, to |-> t, ok |-> r.ok, pass |-> tg.pass,
                                oldmem |-> MemoryArg(fn, v), newmem |-> MemoryArg(r.f, v),
                                hoist |-> fn.vals[v].op = "Load"
                                          /\ ~isAncestorEq(fn, fn.vals[v].block, t)]
                IN  IF t = 0 \/ t = b
                    THEN /\ tg' = [tg EXCEPT !.i = i + 1]
                         /\ fn' = fn
                    ELSE IF ~r.ok
                    THEN /\ tg' = [tg EXCEPT !.canMove = markFailed(@, v), !.i = i + 1,
                                             !.log = Append(@, attempt)]
                         /\ fn' = fn
                    ELSE /\ fn' = [r.f EXCEPT !.blocks[t].values = Append(@, v),
                                              !.vals[v].block = t,
                                              !.blocks[b].values = RemoveAt(@, i)]
                         /\ tg' = [tg EXCEPT !.changed = TRUE, !.moved = @ \cup {v},
                                             !.log = Append(@, attempt)]
    /\ UNCHANGED <<ls, aa, pc, q, sf, jr, sp>>

\* line 184: the move loops are over, back to the test of "changed"
TightenEndPass ==
    /\ pc = "move"
    /\ tg.bi > Len(fn.blocks)
    /\ pc' = "loop"
    /\ UNCHANGED <<ls, fn, aa, q, tg, sf, jr, sp>>

\* line 91: no value moved in the last pass
TightenDone ==
    /\ pc = "loop"
    /\ ~tg.changed
    /\ pc' = "done"
    /\ UNCHANGED <<ls, fn, aa, q, tg, sf, jr, sp>>

NextTighten == TightenStart \/ TightenTargets \/ TightenMove \/ TightenEndPass \/ TightenDone

(***************************************************************************)
(* Specification SpecPinned: tighten on functions that hold a value of     *)
(* every kind the first loop of tighten tells apart.                       *)
(*   b1 -> b2;  b2 -> b3, b4;  b3 -> b5;  b4 -> b5;  b5 -> b6;  b6 exits.  *)
(* Each value of b1 and b2 is used in a block further down.  InitMem and   *)
(* the first store are in b1 or b2.                                        *)
(* The functions without memory are                                        *)
(*   b1 -> b2, b3;  b2 -> b4;  b3 -> b4;  b4 -> b4, b5;  b5 -> b5,         *)
(* with InitMem removed as dead: its value is free for reuse, or has been  *)
(* reused already (value 1 is then a constant without uses).               *)
(***************************************************************************)
PinVals(p) ==
    << Val("InitMem", "Mem", 0, "", <<>>, p.im),                       \* 1 initmem
       Val("SP", "Invalid", 0, "", <<>>, 1),                           \* 2 sp
       Val("Arg", "BytePtr", 0, "argp", <<>>, 1),                      \* 3 argp
       Val("GetClosurePtr", "BytePtr", 0, "", <<>>, 1),                \* 4 closure
       Val("Addr", "Int64Ptr", 0, "autotmp0", <<2>>, 1),               \* 5 auto0
       Val("Const64", "Int64", 1, "", <<>>, 1),                        \* 6 c1
       Val("Store", "Mem", 0, "Int64", <<5, 6, 1>>, p.sb),             \* 7 store
       Val("Mul64uhilo", "Tuple", 0, "", <<17, 6>>, 1),                \* 8 mul
       Val("Select0", "Int64", 0, "", <<8>>, 1),                       \* 9 hi
       Val("Select1", "Int64", 0, "", <<8>>, 1),                       \* 10 lo
       Val("Load", "Int64", 0, "", <<5, 7>>, 2),                       \* 11 ld_auto
       Val("Load", "Int64", 0, "", <<3, 7>>, 2),                       \* 12 ld_arg
       Val("Less64", "Bool", 0, "", <<17, 6>>, 1),                     \* 13 cond
       Val("Load", "Int64", 0, "", <<4, 7>>, 2),                       \* 14 ld_closure
       Val("Add64", "Int64", 0, "", <<p.a15, 10>>, 3),                 \* 15 u3
       Val("Add64", "Int64", 0, "", <<p.a16, 6>>, 4),                  \* 16 u4
       Val("Arg", "Int64", 0, "argi", <<>>, 1),                        \* 17 argi
       Val("Phi", "Int64", 0, "", <<15, 16>>, 5),                      \* 18 phi
       Val("OffPtr", "BytePtr", 8, "", <<2>>, 1),                      \* 19 retptr
       Val("Store", "Mem", 0, "Int64", <<19, 18, 7>>, 6),              \* 20 storeret
       Val("Mul64", "Int64", 0, "", <<17, 6>>, 1) >>                   \* 21 unused

PinFunc(p) ==
    LET vals == PinVals(p)
        bl(kind, b, control, preds, succs) == Blk(kind, valuesIn(vals, b, 1), control, preds, succs)
    IN  [vals |-> vals,
         blocks |-> << bl("Plain", 1, 0, <<>>, <<2>>),
                       bl("If", 2, 13, <<1>>, <<3, 4>>),
                       bl("Plain", 3, 0, <<2>>, <<5>>),
                       bl("Plain", 4, 0, <<2>>, <<5>>),
                       bl("Plain", 5, 0, <<3, 4>>, <<6>>),
                       bl("Exit", 6, 20, <<5>>, <<>>) >>,
         entry |-> 1,
         idom |-> <<0, 1, 2, 2, 2, 5>>,
         b2l |-> <<0, 0, 0, 0, 0, 0>>,
         loops |-> <<>>]

PinParams ==
    {p \in [im : {1, 2}, sb : {1, 2}, a15 : {9, 11, 14}, a16 : {12, 11, 9}] : p.im <= p.sb}

NoMemVals(p) ==
    << IF p.recycle THEN Val("Free", "Invalid", 0, "", <<>>, 0)
                    ELSE Val("Const64", "Int64", 7, "", <<>>, 1),      \* 1
       Val("Arg", "Int64", 0, "argi", <<>>, 1),                        \* 2 argi
       Val("Const64", "Int64", 1, "", <<>>, 1),                        \* 3 c1
       Val("Less64", "Bool", 0, "", <<2, 3>>, 1),                      \* 4 cond1
       Val("Add64", "Int64", 0, "", <<2, 3>>, 1),                      \* 5 x
       Val("Mul64", "Int64", 0, "", <<5, 3>>, p.by),                   \* 6 y
       Val("Phi", "Int64", 0, "", <<6, 8, 7>>, 4),                     \* 7 phi
       Val("Sub64", "Int64", 0, "", <<2, 3>>, 1),                      \* 8 z
       Val("Less64", "Bool", 0, "", <<7, 3>>, 4) >>                    \* 9 cond4

NoMemFunc(p) ==
    LET vals == NoMemVals(p)
        bl(kind, b, control, preds, succs) == Blk(kind, valuesIn(vals, b, 1), control, preds, succs)
    IN  [vals |-> vals,
         blocks |-> << bl("If", 1, 4, <<>>, <<2, 3>>),
                       bl("Plain", 2, 0, <<1>>, <<4>>),
                       bl("Plain", 3, 0, <<1>>, <<4>>),
                       bl("If", 4, 9, <<2, 3, 4>>, <<4, 5>>),
                       bl("Plain", 5, 0, <<4, 5>>, <<5>>) >>,
         entry |-> 1,
         idom |-> <<0, 1, 1, 1, 4>>,
         b2l |-> <<0, 0, 0, 1, 2>>,
         loops |-> << [header |-> 4, depth |-> 1], [header |-> 5, depth |-> 1] >>]

NoMemParams == [recycle : BOOLEAN, by : {1, 2}]

InitPinned ==
    /\ fn \in {PinFunc(p) : p \in PinParams} \cup {NoMemFunc(p) : p \in NoMemParams}
    /\ aa = NoAA
    /\ pc = "tighten"
    /\ q = NoQuery
    /\ tg = NoTighten
    /\ sf = NoForward
    /\ ls = NoShuffle
    /\ jr = NoJoin
    /\ sp = NoSplice

NextPinned == NextTighten \/ TightenPanic

SpecPinned == InitPinned /\ [][NextPinned]_vars

SpecTighten == InitTighten /\ [][NextTighten]_vars

(***************************************************************************)
(* Specification SpecMove: the runs of SpecTighten, and beside them the    *)
(* load motion of the move loop (lines 158-183) applied once to the load   *)
(* of a function and to any block as target, so that hoistLoad, which the  *)
(* targets tighten computes for these functions never select, is applied   *)
(* as well.                                                                *)
(***************************************************************************)
InitLoadMove ==
    /\ fn \in {f \in {TightenFunc(p) : p \in {x \in TightenParams : PlainXY(x)}} :
                 WellFormed(f)}
    /\ aa = NoAA
    /\ pc = "loadmove"
    /\ q = NoQuery
    /\ tg = NoTighten
    /\ sf = NoForward
    /\ ls = NoShuffle
    /\ jr = NoJoin
    /\ sp = NoSplice

InitMove == InitTighten \/ InitLoadMove

\* lines 21-90, as in TightenStart
LoadMoveStart ==
    /\ pc = "loadmove"
    /\ LET m == memranges(fn)
       IN  /\ fn' = m.f
           /\ aa' = init(fn)
           /\ tg' = [phase |-> "run",
                     canMove |-> [v \in ValueIDs(fn) |-> canMoveInit(fn, v)],
                     target |-> [v \in ValueIDs(fn) |-> 0],
                     changed |-> TRUE, bi |-> 0, i |-> 0,
                     mr |-> m.ranges,
                     orig |-> [v \in ValueIDs(fn) |-> fn.vals[v].block],
                     moved |-> {}, lifted |-> {}, log |-> <<>>, pass |-> 0,
                     start |-> fn]
    /\ pc' = "moveready"
    /\ UNCHANGED <<ls, q, sf, jr, sp>>

\* lines 158-183 for a load v of block b and a target t
LoadMoveStep ==
    /\ pc = "moveready"
    /\ \E v \in {x \in ValueIDs(fn) : fn.vals[x].op = "Load"}, t \in BlockIDs(fn) :
         LET b == fn.vals[v].block
             i == CHOOSE k \in 1..Len(fn.blocks[b].values) : fn.blocks[b].values[k] = v
             r == IF isAncestorEq(fn, b, t)
                  THEN sinkLoad(fn, aa, v, t, tg.mr)
                  ELSE hoistLoad(fn, aa, v, t, tg.mr)
             attempt == [v |-> v, from |-> b, to |-> t, ok |-> r.ok, pass |-> tg.pass,
                         oldmem |-> MemoryArg(fn, v), newmem |-> MemoryArg(r.f, v),
                         hoist |-> ~isAncestorEq(fn, b, t)]
         IN  /\ t # b
             /\ IF ~r.ok
                THEN /\ tg' = [tg EXCEPT !.canMove = markFailed(@, v),
                                         !.log = Append(@, attempt)]
                     /\ fn' = fn
                ELSE /\ fn' = [r.f EXCEPT !.blocks[t].values = Append(@, v),
                                          !.vals[v].block = t,
                                          !.blocks[b].values = RemoveAt(@, i)]
                     /\ tg' = [tg EXCEPT !.changed = TRUE, !.moved = @ \cup {v},
                                         !.log = Append(@, attempt)]
    /\ pc' = "movedone"
    /\ UNCHANGED <<ls, aa, q, sf, jr, sp>>

NextMove == NextTighten \/ LoadMoveStart \/ LoadMoveStep

SpecMove == InitMove /\ [][NextMove]_vars

(***************************************************************************)
(* The functions of TestForwardBasic, TestForwardZero,                     *)
(* TestNoForwardAliasing, TestForwardPhiPromotion and TestForwardPhiLoop,  *)
(* folded into one family: entry -> maybe, exit; maybe -> exit (and, for   *)
(* the loop, maybe -> maybe).  In the "straight" functions the exit block  *)
(* has no memory phi, in the "line" functions it has a trivial one.  The two memory operations of the entry      *)
(* block, the address and type of the load in the exit block and the size  *)
(* of a pointer are chosen per run.                                        *)
(***************************************************************************)
\* pointer type names of the target
PtrT(p, name) == IF p.ptrsize = 4 THEN name \o "32" ELSE name

\* <<address, constant offset of fxaddr>> of the load in the exit block
LoadAddrChoices == << <<6, 16>>, <<7, 16>>, <<8, 16>>, <<9, -8>>, <<9, 16>>, <<9, 20>> >>

LoadTypeChoices == {"Int64", "Float64", "Float32", "Int16", "Int8", "Bool", "Ptr", "Complex128"}

\* the first memory operation of the entry block
FirstMemOp(p) ==
    CASE p.m1 = "Z24" -> Val("Zero", "Mem", 24, "Struct24", <<4, 1>>, 1)
      [] p.m1 = "Z8" -> Val("Zero", "Mem", 8, "Int64", <<4, 1>>, 1)
      [] p.m1 = "S0" -> Val("Store", "Mem", 0, "Int64", <<6, 10, 1>>, 1)
      [] p.m1 = "SF0" -> Val("Store", "Mem", 0, "Float64", <<6, 11, 1>>, 1)
      [] p.m1 = "SX" -> Val("Store", "Mem", 0, "Int64", <<9, 10, 1>>, 1)

\* the second memory operation of the entry block
SecondMemOp(p) ==
    CASE p.m2 = "S1" -> Val("Store", "Mem", 0, "Float64", <<7, 11, 13>>, 1)
      [] p.m2 = "SI" -> Val("Store", "Mem", 0, "UInt8", <<8, 12, 13>>, 1)
      [] p.m2 = "SA" -> Val("Store", "Mem", 0, "Int64", <<5, 10, 13>>, 1)
      [] p.m2 = "SX" -> Val("Store", "Mem", 0, "Int8", <<9, 12, 13>>, 1)
      [] p.m2 = "Z24" -> Val("Zero", "Mem", 24, "Struct24", <<4, 13>>, 1)

\* the functions with a loop: the entry block's memory flows through loopphi
HasLoop(p) == p.kind \in {"loop", "nest"}

\* the address stored to on the side path of the nested function: an indexed
\* address into autotmp, or the other local
SideStoreAddr(p) == IF p.m1 \in {"S0", "SF0"} THEN 8 ELSE 5

ForwardVals(p) ==
    << Val("InitMem", "Mem", 0, "", <<>>, 1),                                   \* 1 initmem
       Val("SP", "Invalid", 0, "", <<>>, 1),                                    \* 2 sp
       Val("Arg", "Int64", 0, "", <<>>, 1),                                     \* 3 arg0
       Val("Addr", PtrT(p, "BytePtr"), 0, "autotmp0", <<2>>, 1),                \* 4 autotmp
       Val("Addr", PtrT(p, "Int64Ptr"), 0, "autotmp1", <<2>>, 1),               \* 5 auto1
       Val("OffPtr", PtrT(p, "Int64Ptr"), 0, "", <<4>>, 1),                     \* 6 f0addr
       Val("OffPtr", PtrT(p, "Float64Ptr"), 8, "", <<4>>, 1),                   \* 7 f1addr
       Val("PtrIndex", PtrT(p, "BytePtr"), 0, "", <<4, 3>>, 1),                 \* 8 f2addr
       Val("OffPtr", PtrT(p, "BytePtr"), LoadAddrChoices[p.la][2], "", <<4>>, 1), \* 9 fxaddr
       Val("Const64", "Int64", 3, "", <<>>, 1),                                 \* 10 i64const
       Val("Const64F", "Float64", 0, "", <<>>, 1),                              \* 11 f64const
       Val("Const8", "Int8", 1, "", <<>>, 1),                                   \* 12 i8const
       FirstMemOp(p),                                                           \* 13
       SecondMemOp(p),                                                          \* 14
       Val("Eq64", "Bool", 0, "", <<3, 10>>, 1),                                \* 15 cond
       IF HasLoop(p) THEN Val("Phi", "Mem", 0, "", <<14, 19>>, 2)
                     ELSE Val("Const64", "Int64", 2, "", <<>>, 2),              \* 16 loopphi
       IF HasLoop(p) THEN Val("Load", "Int64", 0, "", <<6, 16>>, 2)
                     ELSE Val("Const64", "Int64", 4, "", <<>>, 2),              \* 17 loadtmp
       Val("Add64", "Int64", 0, "", <<17, 3>>, 2),                              \* 18 sum
       IF p.kind \in {"line", "straight"} THEN Val("Add64", "Int64", 0, "", <<18, 3>>, 2)
       ELSE Val("Store", "Mem", 0, "Int64",
                <<6, 18, IF HasLoop(p) THEN 16 ELSE 14>>, 2),                   \* 19 storetmp0_2
       Val("Geq64", "Bool", 0, "", <<18, 3>>, 2),                               \* 20 cond1
       IF p.kind = "straight" THEN Val("Const64", "Int64", 5, "", <<>>, 3)
       ELSE Val("Phi", "Mem", 0, "",
                CASE p.kind = "line" -> <<14, 14>>
                  [] p.kind = "nest" -> <<19, 27>>
                  [] OTHER -> <<14, 19>>, 3),                                   \* 21 memphi
       Val("Load", IF p.lt = "Ptr" THEN PtrT(p, "BytePtr") ELSE p.lt, 0, "",
           <<LoadAddrChoices[p.la][1], IF p.kind = "straight" THEN 14 ELSE 21>>, 3), \* 22 load0
       Val("Load", "Int64", 0, "", <<5, 14>>, 1),                               \* 23 load1
       Val("Add64", "Int64", 0, "", <<22, 23>>, 3),                             \* 24 val
       Val("OffPtr", PtrT(p, "Int64Ptr"), 8, "", <<2>>, 3),                     \* 25 retptr
       Val("Store", "Mem", 0, "Int64",
           <<25, 24, IF p.kind = "straight" THEN 14 ELSE 21>>, 3) >>            \* 26 storeret
    \o IF p.kind = "nest"
       THEN << Val("Store", "Mem", 0, "UInt8", <<SideStoreAddr(p), 12, 14>>, 4) >> \* 27 sidestore
       ELSE <<>>

ForwardFunc(p) ==
    LET vals == ForwardVals(p)
        loop == HasLoop(p)
        nest == p.kind = "nest"
    IN  [vals |-> vals,
         blocks |-> << Blk("If", valuesIn(vals, 1, 1), 15, <<>>,
                           IF nest THEN <<2, 4>> ELSE <<2, 3>>),
                       Blk(IF loop THEN "If" ELSE "Plain", valuesIn(vals, 2, 1),
                           IF loop THEN 20 ELSE 0,
                           IF loop THEN <<1, 2>> ELSE <<1>>,
                           IF loop THEN <<2, 3>> ELSE <<3>>),
                       Blk("Exit", valuesIn(vals, 3, 1), 26,
                           IF nest THEN <<2, 4>> ELSE <<1, 2>>, <<>>) >>
                    \o IF nest THEN << Blk("Plain", valuesIn(vals, 4, 1), 0, <<1>>, <<3>>) >>
                       ELSE <<>>,
         entry |-> 1,
         idom |-> IF nest THEN <<0, 1, 1, 1>> ELSE <<0, 1, 1>>,
         b2l |-> IF nest THEN <<0, 1, 0, 0>> ELSE IF loop THEN <<0, 1, 0>> ELSE <<0, 0, 0>>,
         loops |-> IF loop THEN << [header |-> 2, depth |-> 1] >> ELSE <<>>,
         consts |-> <<>>]

ForwardParams ==
    [kind : {"straight", "line", "diamond", "loop", "nest"}, m1 : {"Z24", "Z8", "S0", "SF0", "SX"},
     m2 : {"S1", "SI", "SA", "SX", "Z24"}, la : 1..Len(LoadAddrChoices), lt : LoadTypeChoices,
     ptrsize : {8, 4}]

(***************************************************************************)
(* Specification SpecForward: storeforward(f), one step per visited load.  *)
(* sf.orig and sf.log record the history of the run: the function at the   *)
(* start, and for every rewritten load what it was rewritten from.         *)
(***************************************************************************)
InitForward ==
    /\ fn \in {ForwardFunc(p) : p \in ForwardParams}
    /\ aa = NoAA
    /\ pc = "forward"
    /\ q = NoQuery
    /\ tg = NoTighten
    /\ sf = NoForward
    /\ ls = NoShuffle
    /\ jr = NoJoin
    /\ sp = NoSplice

\* lines 16-22
ForwardStart ==
    /\ pc = "forward"
    /\ aa' = init(fn)
    /\ sf' = [phase |-> "run", post |-> postorder(fn), todo |-> <<>>, changed |-> TRUE,
              eliminated |-> 0, orig |-> fn, log |-> {}, failed |-> {}]
    /\ pc' = "sfloop"
    /\ UNCHANGED <<ls, fn, q, tg, jr, sp>>

\* the loads of the blocks in reverse postorder
RECURSIVE loadsOf(_, _, _)
loadsOf(f, post, i) ==
    IF i < 1 THEN <<>>
    ELSE SelectSeq(f.blocks[post[i]].values, LAMBDA v : f.vals[v].op = "Load")
         \o loadsOf(f, post, i - 1)

\* lines 23-25: a new pass over the blocks
ForwardPass ==
    /\ pc = "sfloop"
    /\ sf.changed
    /\ sf' = [sf EXCEPT !.changed = FALSE, !.todo = loadsOf(fn, sf.post, Len(sf.post))]
    /\ pc' = "sfscan"
    /\ UNCHANGED <<ls, fn, aa, q, tg, jr, sp>>

\* the values of f whose operation or operands differ in g
Rewritten(f, g) ==
    {v \in ValueIDs(f) : g.vals[v].op # f.vals[v].op \/ g.vals[v].args # f.vals[v].args}

\* lines 27-38: the next load of the pass
ForwardVisit ==
    /\ pc = "sfscan"
    /\ sf.todo # <<>>
    /\ LET v == Head(sf.todo)
           r == loadfollow(fn, aa, v, fn.vals[v].args[2], <<>>, {})
       IN  IF Uses(fn, v) = 0
           THEN /\ fn' = fn
                /\ sf' = [sf EXCEPT !.todo = Tail(@)]
           ELSE IF r.val = 0
           THEN /\ fn' = r.f
                /\ sf' = [sf EXCEPT !.todo = Tail(@),
                                    !.failed = @ \cup {[load |-> v,
                                                          added |-> Len(r.f.vals) - Len(fn.vals),
                                                          rewritten |-> Rewritten(fn, r.f)]}]
           ELSE /\ fn' = [r.f EXCEPT !.vals[v].op = "Copy", !.vals[v].auxint = 0,
                                     !.vals[v].aux = "", !.vals[v].args = <<r.val>>]
                /\ sf' = [sf EXCEPT !.todo = Tail(@), !.changed = TRUE,
                                    !.eliminated = @ + 1,
                                    !.log = @ \cup {[load |-> v, val |-> r.val, ev |-> r.ev]}]
    /\ UNCHANGED <<ls, aa, pc, q, tg, jr, sp>>

\* line 40: the pass is over, back to the test of "changed"
ForwardEndPass ==
    /\ pc = "sfscan"
    /\ sf.todo = <<>>
    /\ pc' = "sfloop"
    /\ UNCHANGED <<ls, fn, aa, q, tg, sf, jr, sp>>

\* line 23: no load was rewritten in the last pass
ForwardDone ==
    /\ pc = "sfloop"
    /\ ~sf.changed
    /\ pc' = "sfdone"
    /\ UNCHANGED <<ls, fn, aa, q, tg, sf, jr, sp>>

NextForward == ForwardStart \/ ForwardPass \/ ForwardVisit \/ ForwardEndPass \/ ForwardDone

SpecForward == InitForward /\ [][NextForward]_vars

(***************************************************************************)
(* Memory chains for clobberwalk: a chain of stores in the entry block,    *)
(* optionally followed by a loop block whose memory phi closes a cycle.    *)
(* All stores write autotmp0, except the store at position clob (if any),  *)
(* which writes autotmp1, the slot the load reads.                         *)
(***************************************************************************)
\* longest chain of stores in the entry block
MaxChain == 12

\* the k-th store of the entry block has ID 6 + k
chainStores(n, clob) ==
    [k \in 1..n |-> Val("Store", "Mem", 0, "Int64",
                        <<IF k = clob THEN 4 ELSE 3, 5, IF k = 1 THEN 1 ELSE 5 + k>>, 1)]

\* the loop block: a memory phi (ID 7 + n) and m stores behind it
loopStores(n, m) ==
    LET last == IF n = 0 THEN 1 ELSE 6 + n
        phi == 7 + n
    IN  IF m = 0 THEN <<>>
        ELSE << Val("Phi", "Mem", 0, "", <<last, phi + m>>, 2) >>
             \o [k \in 1..m |-> Val("Store", "Mem", 0, "Int64", <<3, 5, phi + k - 1>>, 2)]

WalkVals(n, clob, m) ==
    << Val("InitMem", "Mem", 0, "", <<>>, 1),             \* 1 initmem
       Val("SP", "Invalid", 0, "", <<>>, 1),              \* 2 sp
       Val("Addr", "Int64Ptr", 0, "autotmp0", <<2>>, 1),  \* 3 auto0
       Val("Addr", "Int64Ptr", 0, "autotmp1", <<2>>, 1),  \* 4 auto1
       Val("Const64", "Int64", 1, "", <<>>, 1),           \* 5 c1
       Val("Load", "Int64", 0, "", <<4, 1>>, 1) >>        \* 6 load
    \o chainStores(n, clob) \o loopStores(n, m)

WalkFunc(n, clob, m) ==
    LET vals == WalkVals(n, clob, m)
    IN  [vals |-> vals,
         blocks |-> << Blk("Plain", valuesIn(vals, 1, 1), 0, <<>>, <<2>>),
                       Blk("Plain", valuesIn(vals, 2, 1), Len(vals),
                           IF m = 0 THEN <<1>> ELSE <<1, 2>>,
                           IF m = 0 THEN <<>> ELSE <<2>>) >>,
         entry |-> 1,
         idom |-> <<0, 1>>,
         b2l |-> IF m = 0 THEN <<0, 0>> ELSE <<0, 1>>,
         loops |-> IF m = 0 THEN <<>> ELSE << [header |-> 2, depth |-> 1] >>]

WalkFuncs ==
    {WalkFunc(n, clob, m) : n \in 0..MaxChain, clob \in 0..2, m \in 0..2}

MemoryValues(f) == {v \in 1..Len(f.vals) : IsMemory(f.vals[v].typ)}

(***************************************************************************)
(* Specification SpecWalk: the alias engine is built for a memory chain    *)
(* and clobberwalk is asked about one pair of memory values.               *)
(***************************************************************************)
InitWalk ==
    /\ fn \in WalkFuncs
    /\ aa = NoAA
    /\ pc = "walk"
    /\ q = NoQuery
    /\ tg = NoTighten
    /\ sf = NoForward
    /\ ls = NoShuffle
    /\ jr = NoJoin
    /\ sp = NoSplice

WalkInit ==
    /\ pc = "walk"
    /\ aa' = init(fn)
    /\ pc' = "walkready"
    /\ UNCHANGED <<ls, fn, q, tg, sf, jr, sp>>

\* set.clear(); aa.clobberwalk(mem, load, end, set)
WalkQuery ==
    /\ pc = "walkready"
    /\ \E mem \in MemoryValues(fn), end \in MemoryValues(fn) :
         LET r == clobberwalk(fn, aa, mem, 6, end, {})
         IN  q' = [kind |-> "walk", mem |-> mem, end |-> end, ok |-> r.ok, set |-> r.set]
    /\ pc' = "walked"
    /\ UNCHANGED <<ls, fn, aa, tg, sf, jr, sp>>

NextWalk == WalkInit \/ WalkQuery

SpecWalk == InitWalk /\ [][NextWalk]_vars

(***************************************************************************)
(* The functions memranges is run on: an entry block, a loop whose body is *)
(* a diamond, and an exit block.  Each block holds the stores np says;     *)
(* memory phis exist where two different memory values meet.               *)
(*   b1 -> b2;  b2 -> b3, b6;  b3 -> b4, b5;  b4 -> b5;  b5 -> b2          *)
(***************************************************************************)
MaxEntryStores == 2

\* the block InitMem is found in before the pass
InitMemBlocks == {1, 3, 6}

RangeParams ==
    [n1 : 0..MaxEntryStores, n2 : 0..1, n3 : 0..1, n4 : 0..1, n5 : 0..1, n6 : 0..1,
     im : InitMemBlocks]

RangeVals(p) ==
    LET st(mem, b) == Val("Store", "Mem", 0, "Int64", <<3, 4, mem>>, b)
        no(b) == Val("Const64", "Int64", 0, "", <<>>, b)
        exit1 == IF p.n1 = 0 THEN 1 ELSE IF p.n1 = 1 THEN 5 ELSE 6
        phi2 == p.n2 + p.n3 + p.n4 + p.n5 > 0
        entry2 == IF phi2 THEN 7 ELSE exit1
        exit2 == IF p.n2 = 1 THEN 8 ELSE entry2
        exit3 == IF p.n3 = 1 THEN 9 ELSE exit2
        exit4 == IF p.n4 = 1 THEN 10 ELSE exit3
        entry5 == IF p.n4 = 1 THEN 11 ELSE exit3
        exit5 == IF p.n5 = 1 THEN 12 ELSE entry5
    IN  << Val("InitMem", "Mem", 0, "", <<>>, p.im),                        \* 1 initmem
           Val("SP", "Invalid", 0, "", <<>>, 1),                            \* 2 sp
           Val("OffPtr", "Int64Ptr", 8, "", <<2>>, 1),                      \* 3 addr
           Val("Const64", "Int64", 1, "", <<>>, 1),                         \* 4 const
           IF p.n1 >= 1 THEN st(1, 1) ELSE no(1),                           \* 5
           IF p.n1 >= 2 THEN st(5, 1) ELSE no(1),                           \* 6
           IF phi2 THEN Val("Phi", "Mem", 0, "", <<exit1, exit5>>, 2) ELSE no(2), \* 7
           IF p.n2 = 1 THEN st(entry2, 2) ELSE no(2),                       \* 8
           IF p.n3 = 1 THEN st(exit2, 3) ELSE no(3),                        \* 9
           IF p.n4 = 1 THEN st(exit3, 4) ELSE no(4),                        \* 10
           IF p.n4 = 1 THEN Val("Phi", "Mem", 0, "", <<exit3, exit4>>, 5) ELSE no(5), \* 11
           IF p.n5 = 1 THEN st(entry5, 5) ELSE no(5),                       \* 12
           IF p.n6 = 1 THEN st(exit2, 6) ELSE no(6),                        \* 13
           Val("Eq64", "Bool", 0, "", <<4, 4>>, 2),                         \* 14 cond2
           Val("Eq64", "Bool", 0, "", <<4, 4>>, 3) >>                       \* 15 cond3

RangeFunc(p) ==
    LET vals == RangeVals(p)
        exit2 == IF p.n2 = 1 THEN 8 ELSE IF vals[7].op = "Phi" THEN 7
                 ELSE IF p.n1 = 0 THEN 1 ELSE IF p.n1 = 1 THEN 5 ELSE 6
    IN  [vals |-> vals,
         blocks |-> << Blk("Plain", valuesIn(vals, 1, 1), 0, <<>>, <<2>>),
                       Blk("If", valuesIn(vals, 2, 1), 14, <<1, 5>>, <<3, 6>>),
                       Blk("If", valuesIn(vals, 3, 1), 15, <<2>>, <<4, 5>>),
                       Blk("Plain", valuesIn(vals, 4, 1), 0, <<3>>, <<5>>),
                       Blk("Plain", valuesIn(vals, 5, 1), 0, <<3, 4>>, <<2>>),
                       Blk("Exit", valuesIn(vals, 6, 1), IF p.n6 = 1 THEN 13 ELSE exit2,
                           <<2>>, <<>>) >>,
         entry |-> 1,
         idom |-> <<0, 1, 2, 3, 3, 2>>,
         b2l |-> <<0, 1, 1, 1, 1, 0>>,
         loops |-> << [header |-> 2, depth |-> 1] >>]

(***************************************************************************)
(* Specification SpecRanges: memranges(f) on one of these functions.       *)
(***************************************************************************)
InitRanges ==
    /\ fn \in {RangeFunc(p) : p \in RangeParams}
    /\ aa = NoAA
    /\ pc = "ranges"
    /\ q = NoQuery
    /\ tg = NoTighten
    /\ sf = NoForward
    /\ ls = NoShuffle
    /\ jr = NoJoin
    /\ sp = NoSplice

\* mr := memranges(f)
RangesCompute ==
    /\ pc = "ranges"
    /\ LET m == memranges(fn)
       IN  /\ fn' = m.f
           /\ q' = [kind |-> "ranges", mr |-> m.ranges, orig |-> fn]
    /\ pc' = "ranged"
    /\ UNCHANGED <<ls, aa, tg, sf, jr, sp>>

NextRanges == RangesCompute

SpecRanges == InitRanges /\ [][NextRanges]_vars

(***************************************************************************)
(* The functions clobbers is asked about: one block with a chain of memory *)
(* operations of every kind clobbers distinguishes, and one load per kind  *)
(* of base.                                                                *)
(***************************************************************************)
\* what the first store stores into the global: a constant or a local's address
EscapeChoices == {9, 5, 6}

\* the address the atomic operations work on: a local, the global, an argument
AtomicAddrChoices == {5, 7, 4}

ClobberVals(stored, ataddr) ==
    << Val("InitMem", "Mem", 0, "", <<>>, 1),                          \* 1 initmem
       Val("SP", "Invalid", 0, "", <<>>, 1),                           \* 2 sp
       Val("SB", "Invalid", 0, "", <<>>, 1),                           \* 3 sb
       Val("Arg", "BytePtr", 0, "", <<>>, 1),                          \* 4 arg
       Val("Addr", "Int64Ptr", 0, "autotmp0", <<2>>, 1),               \* 5 auto0
       Val("Addr", "Int64Ptr", 0, "autotmp1", <<2>>, 1),               \* 6 auto1
       Val("Addr", "Int64Ptr", 0, "global", <<3>>, 1),                 \* 7 global
       Val("Addr", "Int64Ptr", 0, "rodata", <<3>>, 1),                 \* 8 roaddr
       Val("Const64", "Int64", 1, "", <<>>, 1),                        \* 9 c64
       Val("OffPtr", "Int64Ptr", 16, "", <<2>>, 1),                    \* 10 spoff
       Val("Store", "Mem", 0, "Int64", <<7, stored, 1>>, 1),           \* 11 store0
       Val("AtomicStore64", "Mem", 0, "", <<ataddr, 9, 11>>, 1),       \* 12 atomst
       Val("AtomicAdd64", "Tuple", 0, "", <<ataddr, 9, 12>>, 1),       \* 13 atomadd
       Val("Select1", "Mem", 0, "", <<13>>, 1),                        \* 14 sel1
       Val("StaticCall", "Mem", 0, "f", <<14>>, 1),                    \* 15 call
       Val("VarDef", "Mem", 0, "autotmp0", <<15>>, 1),                 \* 16 vardef
       Val("Store", "Mem", 0, "Int64", <<6, 9, 16>>, 1),               \* 17 store1
       Val("Zero", "Mem", 8, "Int64", <<5, 17>>, 1),                   \* 18 zero
       Val("Load", "Int64", 0, "", <<5, 18>>, 1),                      \* 19 ld_auto0
       Val("Load", "Int64", 0, "", <<6, 18>>, 1),                      \* 20 ld_auto1
       Val("Load", "Int64", 0, "", <<7, 18>>, 1),                      \* 21 ld_global
       Val("Load", "Int64", 0, "", <<8, 18>>, 1),                      \* 22 ld_ro
       Val("Load", "Int64", 0, "", <<4, 18>>, 1),                      \* 23 ld_arg
       Val("Load", "Int64", 0, "", <<10, 18>>, 1),                     \* 24 ld_sp
       Val("KeepAlive", "Mem", 0, "", <<19, 18>>, 1),                  \* 25 keepalive
       Val("KeepAlive", "Mem", 0, "", <<22, 25>>, 1) >>                \* 26 keepro

ClobberFunc(stored, ataddr) ==
    LET vals == ClobberVals(stored, ataddr)
    IN  [vals |-> vals,
         blocks |-> << Blk("Exit", valuesIn(vals, 1, 1), 26, <<>>, <<>>) >>,
         entry |-> 1,
         idom |-> <<0>>,
         b2l |-> <<0>>,
         loops |-> <<>>]

\* the memory operations and the loads clobbers is asked about
ClobberMems == {1, 11, 12, 13, 14, 15, 16, 17, 18, 25, 26}

ClobberLoads == 19..24

(***************************************************************************)
(* Specification SpecClobbers: the alias engine is built and clobbers is   *)
(* asked about one memory operation and one load.                          *)
(***************************************************************************)
InitClobbers ==
    /\ fn \in {ClobberFunc(s, a) : s \in EscapeChoices, a \in AtomicAddrChoices}
    /\ aa = NoAA
    /\ pc = "clob"
    /\ q = NoQuery
    /\ tg = NoTighten
    /\ sf = NoForward
    /\ ls = NoShuffle
    /\ jr = NoJoin
    /\ sp = NoSplice

ClobbersInit ==
    /\ pc = "clob"
    /\ aa' = init(fn)
    /\ pc' = "clobready"
    /\ UNCHANGED <<ls, fn, q, tg, sf, jr, sp>>

\* aa.clobbers(mem, load)
ClobbersQuery ==
    /\ pc = "clobready"
    /\ \E mem \in ClobberMems, load \in ClobberLoads :
         q' = [kind |-> "clobbers", mem |-> mem, load |-> load,
               res |-> clobbers(fn, aa, mem, load)]
    /\ pc' = "clobbered"
    /\ UNCHANGED <<ls, fn, aa, tg, sf, jr, sp>>

NextClobbers == ClobbersInit \/ ClobbersQuery

SpecClobbers == InitClobbers /\ [][NextClobbers]_vars

(***************************************************************************)
(* The function of TestLoadShuffleNoCSE with three stores in the exit      *)
(* block instead of one.  Per run: the address and the stored value of     *)
(* each store (the second may be a call instead), the memory operand of    *)
(* load1, and a second load, of sp+16 or of a global indexed by load1.     *)
(***************************************************************************)
\* addresses of the stores: sp+8_2, sp+16, sp+24; 0 makes the second
\* operation a call
StoreAddrChoices == {7, 8, 9}

\* const1 or load1
StoreValChoices == {5, 13}

ShuffleParams ==
    [a1 : StoreAddrChoices, a2 : StoreAddrChoices \cup {0}, a3 : StoreAddrChoices,
     v1 : StoreValChoices, v2 : StoreValChoices, v3 : StoreValChoices,
     lm : {6, 10, 11}, l2dep : BOOLEAN, l2m : {6, 10, 11, 12}]

\* position of a memory value of the function in its memory chain
ChainPos(m) == CASE m = 6 -> 0 [] m = 10 -> 1 [] m = 11 -> 2 [] m = 12 -> 3

\* a value is computed before the stores that use it, and load2 not before
\* the load its address is computed from
ShuffleOrdered(p) ==
    /\ p.v1 = 13 => ChainPos(p.lm) < 1
    /\ (p.v2 = 13 /\ p.a2 # 0) => ChainPos(p.lm) < 2
    /\ p.v3 = 13 => ChainPos(p.lm) < 3
    /\ p.l2dep => ChainPos(p.l2m) >= ChainPos(p.lm)

ShuffleVals(p) ==
    << Val("InitMem", "Mem", 0, "", <<>>, 1),                           \* 1 initmem
       Val("SP", "Invalid", 0, "", <<>>, 1),                            \* 2 sp
       Val("OffPtr", "BytePtr", 8, "", <<2>>, 1),                       \* 3 sp+8
       Val("Const64", "Int64", 0, "", <<>>, 1),                         \* 4 const0
       Val("Const64", "Int64", 1, "", <<>>, 1),                         \* 5 const1
       Val("Store", "Mem", 0, "Int64", <<3, 4, 1>>, 1),                 \* 6 store0
       Val("OffPtr", "BytePtr", 8, "", <<2>>, 2),                       \* 7 sp+8_2
       Val("OffPtr", "BytePtr", 16, "", <<2>>, 2),                      \* 8 sp+16
       Val("OffPtr", "BytePtr", 24, "", <<2>>, 2),                      \* 9 sp+24
       Val("Store", "Mem", 0, "Int64", <<p.a1, p.v1, 6>>, 2),           \* 10 store1
       IF p.a2 = 0 THEN Val("StaticCall", "Mem", 0, "f", <<10>>, 2)
       ELSE Val("Store", "Mem", 0, "Int64", <<p.a2, p.v2, 10>>, 2),     \* 11 store2
       Val("Store", "Mem", 0, "Int64", <<p.a3, p.v3, 11>>, 2),          \* 12 store3
       Val("Load", "Int64", 0, "", <<3, p.lm>>, 2),                     \* 13 load1
       Val("Load", "Int64", 0, "", <<IF p.l2dep THEN 15 ELSE 8, p.l2m>>, 2), \* 14 load2
       Val("PtrIndex", "BytePtr", 0, "", <<19, 13>>, 2),                \* 15 idx = global[load1]
       Val("Add64", "Int64", 0, "", <<13, 14>>, 2),                     \* 16 sum
       Val("Store", "Mem", 0, "Int64", <<2, 16, 12>>, 2),               \* 17 storeret
       Val("SB", "Invalid", 0, "", <<>>, 1),                            \* 18 sb
       Val("Addr", "Int64Ptr", 0, "global", <<18>>, 1) >>               \* 19 global

ShuffleFunc(p) ==
    LET vals == ShuffleVals(p)
    IN  [vals |-> vals,
         blocks |-> << Blk("Plain", valuesIn(vals, 1, 1), 0, <<>>, <<2>>),
                       Blk("Exit", valuesIn(vals, 2, 1), 17, <<1>>, <<>>) >>,
         entry |-> 1,
         idom |-> <<0, 1>>,
         b2l |-> <<0, 0>>,
         loops |-> <<>>]

(***************************************************************************)
(* Specification SpecShuffle: loadshuffle(f), one step per visited load.   *)
(* ls.log records every rewrite of a memory operand: load, from, to.       *)
(***************************************************************************)
InitShuffle ==
    /\ fn \in {ShuffleFunc(p) : p \in {x \in ShuffleParams : ShuffleOrdered(x)}}
    /\ aa = NoAA
    /\ pc = "shuffle"
    /\ q = NoQuery
    /\ tg = NoTighten
    /\ sf = NoForward
    /\ ls = NoShuffle
    /\ jr = NoJoin
    /\ sp = NoSplice

\* lines 57-63
ShuffleStart ==
    /\ pc = "shuffle"
    /\ aa' = init(fn)
    /\ LET me == memexits(fn)
       IN  /\ fn' = me.f
           /\ ls' = [phase |-> "run", memexit |-> me.exits, b |-> 1, tail |-> 0, num |-> 0,
                     storenumber |-> [v \in ValueIDs(fn) |-> 0], todo |-> <<>>,
                     changed |-> FALSE, sinks |-> 0, orig |-> me.f, log |-> {}]
    /\ pc' = "lsblock"
    /\ UNCHANGED <<q, tg, sf, jr, sp>>

\* lines 64-91: the next block; blocks without stores, and blocks with too
\* many, are skipped
ShuffleBlock ==
    /\ pc = "lsblock"
    /\ ls.b <= Len(fn.blocks)
    /\ LET tail == ls.memexit[ls.b]
       IN  IF tail = 0 \/ ~storeIn(fn, tail, ls.b)
           THEN /\ ls' = [ls EXCEPT !.b = @ + 1]
                /\ pc' = pc
           ELSE LET n == numberStores(fn, ls.b, tail, ls.storenumber, 0)
                IN  IF n.num > maxblockstores
                    THEN /\ ls' = [ls EXCEPT !.b = @ + 1, !.storenumber = n.storenumber]
                         /\ pc' = pc
                    ELSE /\ ls' = [ls EXCEPT !.tail = tail, !.num = n.num,
                                             !.storenumber = n.storenumber, !.changed = TRUE]
                         /\ pc' = "lsloop"
    /\ UNCHANGED <<fn, aa, q, tg, sf, jr, sp>>

\* lines 92-94: a new pass over the values of the block
ShufflePass ==
    /\ pc = "lsloop"
    /\ ls.changed
    /\ ls' = [ls EXCEPT !.changed = FALSE,
                        !.todo = SelectSeq(fn.blocks[ls.b].values,
                                           LAMBDA v : fn.vals[v].op = "Load")]
    /\ pc' = "lsscan"
    /\ UNCHANGED <<fn, aa, q, tg, sf, jr, sp>>

\* lines 95-100: the next load of the pass
ShuffleSink ==
    /\ pc = "lsscan"
    /\ ls.todo # <<>>
    /\ LET v == Head(ls.todo)
           r == sink(fn, aa, v, ls.b, ls.tail, ls.storenumber, ls.num)
       IN  IF Uses(fn, v) > 0 /\ r.n > 0
           THEN /\ fn' = r.f
                /\ ls' = [ls EXCEPT !.todo = Tail(@), !.changed = TRUE, !.sinks = @ + 1,
                                    !.log = @ \cup {[load |-> v, from |-> fn.vals[v].args[2],
                                                     to |-> r.f.vals[v].args[2]]}]
           ELSE /\ fn' = IF Uses(fn, v) > 0 THEN r.f ELSE fn
                /\ ls' = [ls EXCEPT !.todo = Tail(@)]
    /\ UNCHANGED <<aa, pc, q, tg, sf, jr, sp>>

\* line 101: the pass over the values is over
ShuffleEndPass ==
    /\ pc = "lsscan"
    /\ ls.todo = <<>>
    /\ pc' = "lsloop"
    /\ UNCHANGED <<fn, aa, q, tg, sf, ls, jr, sp>>

\* line 92: no load of the block moved in the last pass
ShuffleEndBlock ==
    /\ pc = "lsloop"
    /\ ~ls.changed
    /\ ls' = [ls EXCEPT !.b = @ + 1]
    /\ pc' = "lsblock"
    /\ UNCHANGED <<fn, aa, q, tg, sf, jr, sp>>

\* line 64: every block was visited
ShuffleDone ==
    /\ pc = "lsblock"
    /\ ls.b > Len(fn.blocks)
    /\ pc' = "lsdone"
    /\ UNCHANGED <<fn, aa, q, tg, sf, ls, jr, sp>>

NextShuffle ==
    \/ ShuffleStart \/ ShuffleBlock \/ ShufflePass \/ ShuffleSink
    \/ ShuffleEndPass \/ ShuffleEndBlock \/ ShuffleDone

SpecShuffle == InitShuffle /\ [][NextShuffle]_vars

(***************************************************************************)
(* Specification SpecTwice: one of tighten, storeforward and loadshuffle   *)
(* runs to its end and is then run a second time on its own result.  q     *)
(* keeps the function the first run produced and whether that run changed  *)
(* anything.                                                               *)
(***************************************************************************)
TwiceTightenParams ==
    {p \in TightenParams : p.by = 1 /\ p.c6arg = 3 /\ p.u7arg = 9 /\ p.phi2 = 6}

TwiceForwardParams ==
    {p \in ForwardParams : p.ptrsize = 8 /\ p.lt \in {"Int64", "Float64"}
                            /\ p.m1 \in {"Z24", "S0", "SX"}}

InitTwice ==
    /\ \/ /\ fn \in {f \in {TightenFunc(p) : p \in TwiceTightenParams} : WellFormed(f)}
          /\ pc = "tighten"
       \/ /\ fn \in {ForwardFunc(p) : p \in TwiceForwardParams}
          /\ pc = "forward"
       \/ /\ fn \in {ShuffleFunc(p) : p \in {x \in ShuffleParams : ShuffleOrdered(x)}}
          /\ pc = "shuffle"
    /\ aa = NoAA
    /\ q = NoQuery
    /\ tg = NoTighten
    /\ sf = NoForward
    /\ ls = NoShuffle
    /\ jr = NoJoin
    /\ sp = NoSplice

\* the pass is called again on the function it has just left
Rerun ==
    /\ pc \in {"done", "sfdone", "lsdone"}
    /\ q.kind = "none"
    /\ q' = [kind |-> "rerun", first |-> fn,
             work |-> CASE pc = "done" -> Cardinality(tg.moved)
                        [] pc = "sfdone" -> sf.eliminated
                        [] pc = "lsdone" -> ls.sinks]
    /\ pc' = CASE pc = "done" -> "tighten"
               [] pc = "sfdone" -> "forward"
               [] pc = "lsdone" -> "shuffle"
    /\ UNCHANGED <<fn, aa, tg, sf, ls, jr, sp>>

NextTwice == NextTighten \/ NextForward \/ NextShuffle \/ Rerun

SpecTwice == InitTwice /\ [][NextTwice]_vars

(***************************************************************************)
(* Vocabulary of the properties of the alias engine.                       *)
(***************************************************************************)
Answered == pc = "answered" /\ q.kind = "alias"

IsPhi(f, id) == f.vals[id].op = "Phi"

\* the value and constant offset left after stripping OffPtr/Copy wrappers
RECURSIVE StripBase(_, _)
StripBase(f, id) ==
    IF f.vals[id].op \in {"OffPtr", "Copy"} THEN StripBase(f, f.vals[id].args[1]) ELSE id

RECURSIVE ConstOffset(_, _)
ConstOffset(f, id) ==
    IF f.vals[id].op = "OffPtr" THEN f.vals[id].auxint + ConstOffset(f, f.vals[id].args[1])
    ELSE IF f.vals[id].op = "Copy" THEN ConstOffset(f, f.vals[id].args[1])
    ELSE 0

\* the byte ranges [o1, o1+w1) and [o2, o2+w2) have a byte in common
RangesIntersect(o1, w1, o2, w2) ==
    \E x \in o1..(o1 + w1 - 1) : x \in o2..(o2 + w2 - 1)

\* an address of a stack slot: (Addr {auto symbol} (SP))
IsStackSlot(f, id) ==
    /\ f.vals[id].op = "Addr"
    /\ f.vals[id].aux \in AutoSyms
    /\ f.vals[f.vals[id].args[1]].op = "SP"

\* the values a pointer expression may evaluate to the address of: through
\* offset, index and copy wrappers, pointer conversions and pointer phis
RECURSIVE Roots(_, _)
Roots(f, id) ==
    IF f.vals[id].op \in {"OffPtr", "AddPtr", "PtrIndex", "Copy", "Convert"}
    THEN Roots(f, f.vals[id].args[1])
    ELSE IF f.vals[id].op = "Phi"
    THEN UNION {Roots(f, f.vals[id].args[i]) : i \in 1..Len(f.vals[id].args)}
    ELSE {id}

\* a pointer based on the stack slot `local` is the stored operand of a store
AddressStored(f, local) ==
    \E s \in 1..Len(f.vals) :
        /\ f.vals[s].op = "Store"
        /\ \E r \in Roots(f, f.vals[s].args[2]) :
             f.vals[r].op = "Addr" /\ f.vals[r].aux = f.vals[local].aux

IsPtrArg(f, id) == f.vals[id].op = "Arg" /\ IsPtrShaped(f.vals[id].typ)

\* the (pointer, width) pairs b and c can denote overlapping byte ranges
CanOverlapOneWay(f, b, bw, c, cw) ==
    \/ /\ StripBase(f, b) = StripBase(f, c)
       /\ RangesIntersect(ConstOffset(f, b), bw, ConstOffset(f, c), cw)
    \/ /\ f.vals[StripBase(f, b)].op = "Addr" /\ f.vals[StripBase(f, c)].op = "Addr"
       /\ f.vals[StripBase(f, b)].aux = f.vals[StripBase(f, c)].aux
       /\ RangesIntersect(ConstOffset(f, b), bw, ConstOffset(f, c), cw)
    \/ /\ IsPhi(f, b) /\ \E i \in 1..Len(f.vals[b].args) : f.vals[b].args[i] = c
       /\ bw > 0 /\ cw > 0
    \/ /\ IsPtrArg(f, StripBase(f, b))
       /\ IsStackSlot(f, ptrbase(f, c)) /\ AddressStored(f, ptrbase(f, c))
       /\ bw > 0 /\ cw > 0

CanOverlap(f, b, bw, c, cw) ==
    CanOverlapOneWay(f, b, bw, c, cw) \/ CanOverlapOneWay(f, c, cw, b, bw)

(***************************************************************************)
(* C1 (as claimed): alias never returns MustNotAlias for two (pointer,     *)
(* width) pairs that can denote overlapping byte ranges: the same base     *)
(* with intersecting constant-offset ranges, two addresses of one symbol,  *)
(* a pointer phi and one of its incoming values, or a pointer argument and *)
(* a local whose address was stored to memory; in either argument order.   *)
(***************************************************************************)
C1_AliasSound ==
    (Answered /\ CanOverlap(fn, q.b, q.bw, q.c, q.cw)) => q.res # mustNotAlias

\* the relation the offsets and widths of two pointers into one base decide
SameBaseRelation(f, b, bw, c, cw, res) ==
    LET o1 == ConstOffset(f, b)
        o2 == ConstOffset(f, c)
    IN  /\ res \in {mustAlias, mayAlias, mustNotAlias}
        /\ (res = mustAlias) <=> (o1 = o2 /\ bw = cw)
        /\ (res = mustNotAlias) <=> ~RangesIntersect(o1, bw, o2, cw)

(***************************************************************************)
(* C2 (as claimed): for two distinct pointers that strip through           *)
(* OffPtr/Copy to the same base, alias is MustAlias iff offsets and widths *)
(* are equal, MustNotAlias iff the byte ranges do not intersect, MayAlias  *)
(* otherwise; a shared base reached through a non-constant wrapper gives   *)
(* MayAlias.                                                               *)
(***************************************************************************)
C2_SameBaseAsClaimed ==
    (Answered /\ q.b # q.c) =>
        /\ StripBase(fn, q.b) = StripBase(fn, q.c)
             => SameBaseRelation(fn, q.b, q.bw, q.c, q.cw, q.res)
        /\ (StripBase(fn, q.b) # StripBase(fn, q.c) /\ ptrbase(fn, q.b) = ptrbase(fn, q.c))
             => q.res = mayAlias

(***************************************************************************)
(* C2 (amended): the same, for two distinct pointers neither of which is   *)
(* itself a phi, and for widths of at least one byte.                      *)
(***************************************************************************)
C2_SameBase ==
    (Answered /\ q.b # q.c /\ ~IsPhi(fn, q.b) /\ ~IsPhi(fn, q.c)) =>
        /\ (StripBase(fn, q.b) = StripBase(fn, q.c) /\ q.bw >= 1 /\ q.cw >= 1)
             => SameBaseRelation(fn, q.b, q.bw, q.c, q.cw, q.res)
        /\ (StripBase(fn, q.b) # StripBase(fn, q.c) /\ ptrbase(fn, q.b) = ptrbase(fn, q.c))
             => q.res = mayAlias

\* lo0 (offset 0, width 4) against hi0 (offset 4, width 4): disjoint windows
C2_Witness ==
    /\ Answered /\ q.b = 10 /\ q.c = 11 /\ q.bw = 4 /\ q.cw = 4
    /\ StripBase(fn, q.b) = StripBase(fn, q.c)
    /\ q.res = mustNotAlias

(***************************************************************************)
(* C3: alias(p, w1, p, w2) is MustAlias when w1 = w2 and MayAlias when     *)
(* w1 # w2, whatever p's operation is (a phi included).                    *)
(***************************************************************************)
C3_SameValue ==
    (Answered /\ q.b = q.c) =>
        q.res = (IF q.bw = q.cw THEN mustAlias ELSE mayAlias)

\* a pointer phi compared with itself at equal widths
C3_Witness ==
    Answered /\ q.b = q.c /\ IsPhi(fn, q.b) /\ q.bw = q.cw /\ q.bw > 0 /\ q.res = mustAlias

(***************************************************************************)
(* C4: two pointers with distinct bases that both have known partitions    *)
(* are MustNotAlias when the partitions differ (two different stack slots, *)
(* a stack slot and a global symbol) and MayAlias when they are the same   *)
(* (two address-of values of one symbol, two SP values).                   *)
(***************************************************************************)
SameRegion(f, x, y) ==
    \/ f.vals[x].op = "SP" /\ f.vals[y].op = "SP"
    \/ f.vals[x].op = "Addr" /\ f.vals[y].op = "Addr" /\ f.vals[x].aux = f.vals[y].aux

C4_KnownPartitions ==
    Answered =>
        LET bb == ptrbase(fn, q.b)
            cb == ptrbase(fn, q.c)
        IN  /\ (bb # cb /\ partition(aa, bb) # -1 /\ partition(aa, cb) # -1)
                 => q.res = (IF partition(aa, bb) # partition(aa, cb)
                             THEN mustNotAlias ELSE mayAlias)
            /\ (bb # cb /\ fn.vals[bb].op \in {"SP", "Addr"} /\ fn.vals[cb].op \in {"SP", "Addr"})
                 => q.res = (IF SameRegion(fn, bb, cb) THEN mayAlias ELSE mustNotAlias)

\* the two address-of values of autotmp1
C4_Witness ==
    /\ Answered /\ q.b = 8 /\ q.c = 13
    /\ partition(aa, 8) # -1 /\ partition(aa, 8) = partition(aa, 13)
    /\ q.res = mayAlias

(***************************************************************************)
(* C5 (as claimed): once the engine is built, the partition of a stack     *)
(* slot is not NonEscaping if a pointer based on the slot is the stored    *)
(* operand of a store (directly, through offset/copy wrappers, through a   *)
(* conversion or through a pointer phi), and alias(argument, that local)   *)
(* is MayAlias.                                                            *)
(***************************************************************************)
C5_StoredLocalEscapes ==
    pc \in {"ready", "answered"} =>
        \A local \in 1..Len(fn.vals) :
            (IsStackSlot(fn, local) /\ AddressStored(fn, local)) =>
                /\ ~isNoalias(aa, local)
                /\ (Answered /\ IsPtrArg(fn, q.b) /\ q.c = local) => q.res = mayAlias

(***************************************************************************)
(* C6 (as claimed): alias is MayAlias for a function argument against a    *)
(* global symbol address, and whenever the bases are distinct, at least    *)
(* one base has no partition, no involved partition is NonEscaping and     *)
(* neither base is an Allocation.                                          *)
(***************************************************************************)
IsGlobalAddr(f, id) ==
    f.vals[id].op = "Addr" /\ IsExternSymbol(f.vals[id].aux) /\ f.vals[f.vals[id].args[1]].op = "SB"

DefaultCase(f, a, b, c) ==
    LET bb == ptrbase(f, b)
        cb == ptrbase(f, c)
    IN  /\ bb # cb
        /\ partition(a, bb) = -1 \/ partition(a, cb) = -1
        /\ ~isNoalias(a, bb) /\ ~isNoalias(a, cb)
        /\ ~isAlloc(a, bb) /\ ~isAlloc(a, cb)

C6_DefaultAsClaimed ==
    Answered =>
        /\ DefaultCase(fn, aa, q.b, q.c) => q.res = mayAlias
        /\ (IsPtrArg(fn, q.b) /\ IsGlobalAddr(fn, q.c)) => q.res = mayAlias
        /\ (IsGlobalAddr(fn, q.b) /\ IsPtrArg(fn, q.c)) => q.res = mayAlias

(***************************************************************************)
(* C6 (amended): the same, when neither operand is itself a phi.           *)
(***************************************************************************)
C6_Default ==
    (Answered /\ ~IsPhi(fn, q.b) /\ ~IsPhi(fn, q.c)) =>
        /\ DefaultCase(fn, aa, q.b, q.c) => q.res = mayAlias
        /\ (IsPtrArg(fn, q.b) /\ IsGlobalAddr(fn, q.c)) => q.res = mayAlias
        /\ (IsGlobalAddr(fn, q.b) /\ IsPtrArg(fn, q.c)) => q.res = mayAlias

\* the argument against the address of the global symbol
C6_Witness ==
    /\ Answered /\ q.b = 4 /\ q.c = 9 /\ q.bw = 8 /\ q.cw = 8
    /\ DefaultCase(fn, aa, q.b, q.c)
    /\ q.res = mayAlias

(***************************************************************************)
(* Properties of tighten.                                                  *)
(***************************************************************************)
TightenFinished == pc = "done" /\ tg.phase = "run"

\* C7: after tighten finishes, the block of every value it relocated
\* dominates the block of every ordinary user, the block it controls, and
\* for a use as the i-th argument of a phi the i-th predecessor of the
\* phi's block.
C7_DominanceSafety ==
    TightenFinished =>
        \A v \in tg.moved : \A u \in UseBlocks(fn, v) : isAncestorEq(fn, fn.vals[v].block, u)

\* a finished run that relocated a value used by a phi into a block other
\* than the phi's own
C7_Witness ==
    /\ TightenFinished
    /\ \E v \in tg.moved : \E u \in ValueIDs(fn) :
         /\ fn.vals[u].op = "Phi"
         /\ \E k \in 1..Len(fn.vals[u].args) : fn.vals[u].args[k] = v
         /\ fn.vals[v].block # tg.orig[v]
         /\ ~isAncestorEq(fn, fn.vals[v].block, fn.vals[u].block)

\* C8: after tighten finishes, no value is in a block whose loop nesting
\* depth is greater than that of the block it was in when tighten started.
C8_LoopSafety ==
    TightenFinished =>
        \A v \in ValueIDs(fn) : depthOf(fn, fn.vals[v].block) <= depthOf(fn, tg.orig[v])

\* a finished run in which the target of a relocated value was moved out
\* of a deeper loop
C8_Witness ==
    /\ TightenFinished
    /\ \E v \in tg.moved \cap tg.lifted : fn.vals[v].block # tg.orig[v]

(***************************************************************************)
(* Properties of storeforward.                                             *)
(***************************************************************************)
\* the stores and zeroes the rewritten loads took their values from, as
\* <<load, event>>
Forwardings == {le \in UNION {{<<l.load, e>> : e \in l.ev} : l \in sf.log} : TRUE}

\* two addresses at constant offsets of one base whose byte ranges are disjoint
DisjointConstOffsets(f, a, aw, b, bw) ==
    /\ StripBase(f, a) = StripBase(f, b)
    /\ ~RangesIntersect(ConstOffset(f, a), aw, ConstOffset(f, b), bw)

\* C9: a load is replaced by a store's value only if alias(store address,
\* store width, load address, load width) is MustAlias and every memory
\* operation walked over between the load's memory operand and the store
\* was reported non-clobbering; no store walked over or forwarded from is
\* only MayAlias, and the store forwarded from is not at a disjoint
\* constant offset of the same object.
C9_ForwardingSound ==
    sf.phase = "run" =>
        \A le \in Forwardings :
            le[2].kind = "store" =>
                LET f == sf.orig
                    laddr == f.vals[le[1]].args[1]
                    lw == TypeSize(f.vals[le[1]].typ)
                    st == f.vals[le[2].src]
                    stores == {m \in le[2].walked \cup {le[2].src} : f.vals[m].op \in {"Store", "StoreWB"}}
                IN  /\ alias(f, aa, st.args[1], TypeSize(st.aux), laddr, lw) = mustAlias
                    /\ \A m \in le[2].walked : f.vals[m].op # "Phi" => ~clobbers(f, aa, m, le[1])
                    /\ \A m \in stores :
                         alias(f, aa, f.vals[m].args[1], TypeSize(f.vals[m].aux), laddr, lw) # mayAlias
                    /\ ~DisjointConstOffsets(f, st.args[1], TypeSize(st.aux), laddr, lw)

\* a load rewritten to the value of a store, found behind another store
C9_Witness ==
    /\ pc = "sfdone"
    /\ \E le \in Forwardings :
         /\ le[2].kind = "store"
         /\ \E m \in le[2].walked : sf.orig.vals[m].op = "Store"

\* the zero constant of a type: its operation, "" for a type that has none
ZeroOpOf(t) ==
    CASE IsPtrShaped(t) -> "ConstNil"
      [] ~IsPtrShaped(t) /\ IsFloat(t) /\ TypeSize(t) = 8 -> "Const64F"
      [] ~IsPtrShaped(t) /\ IsFloat(t) /\ TypeSize(t) = 4 -> "Const32F"
      [] ~IsPtrShaped(t) /\ IsBoolean(t) /\ TypeSize(t) = 1 -> "ConstBool"
      [] ~IsPtrShaped(t) /\ ~IsFloat(t) /\ TypeSize(t) = 8 -> "Const64"
      [] ~IsPtrShaped(t) /\ ~IsFloat(t) /\ TypeSize(t) = 4 -> "Const32"
      [] ~IsPtrShaped(t) /\ ~IsFloat(t) /\ TypeSize(t) = 2 -> "Const16"
      [] ~IsPtrShaped(t) /\ ~IsFloat(t) /\ ~IsBoolean(t) /\ TypeSize(t) = 1 -> "Const8"
      [] OTHER -> ""

\* the load's byte range [off, off+size) lies inside [0, width) of the zero
\* whose pointer is exactly the base of the load's address
InsideZeroed(f, load, zero) ==
    LET laddr == f.vals[load].args[1]
        off == ConstOffset(f, laddr)
    IN  /\ f.vals[zero].args[1] = StripBase(f, laddr)
        /\ 0 <= off
        /\ off + TypeSize(f.vals[load].typ) <= f.vals[zero].auxint

\* C10: a load is replaced by a zero constant from a bulk-zero operation
\* only when the zero's pointer is exactly the base of the load's address
\* and the load's byte range lies inside the zeroed range; the constant has
\* the load's type and the operation of that type's zero, and a load type
\* of any other size is not forwarded.
C10_ZeroForwarding ==
    sf.phase = "run" =>
        \A le \in Forwardings :
            le[2].kind = "zero" =>
                /\ InsideZeroed(sf.orig, le[1], le[2].src)
                /\ fn.vals[le[2].val].typ = sf.orig.vals[le[1]].typ
                /\ fn.vals[le[2].val].op = ZeroOpOf(sf.orig.vals[le[1]].typ)
                /\ fn.vals[le[2].val].auxint = 0

(***************************************************************************)
(* Properties of clobberwalk.                                              *)
(***************************************************************************)
\* the memory values that produce the memory operand(s) of m
MemPreds(f, m) ==
    IF f.vals[m].op = "Phi" THEN {f.vals[m].args[k] : k \in 1..Len(f.vals[m].args)}
    ELSE IF MemoryArg(f, m) = 0 THEN {} ELSE {MemoryArg(f, m)}

\* the memory values met on the way back from mem, stopping at end
RECURSIVE BackReachFrom(_, _, _)
BackReachFrom(f, end, S) ==
    LET T == S \cup (UNION {MemPreds(f, m) : m \in S} \ {end})
    IN  IF T = S THEN S ELSE BackReachFrom(f, end, T)

BackReach(f, mem, end) == IF mem = end THEN {} ELSE BackReachFrom(f, end, {mem})

Walked == pc = "walked" /\ q.kind = "walk"

\* C12: clobberwalk ends on every memory graph, cyclic memory phis
\* included; its visited set never holds more than maxmemwalk memory
\* values; and it returns false whenever reaching the end value takes more
\* than maxmemwalk distinct memory values.
C12_BoundedWalk ==
    Walked =>
        /\ Cardinality(q.set) <= maxmemwalk
        /\ (Cardinality(BackReach(fn, q.mem, q.end)) > maxmemwalk => ~q.ok)

\* a walk over a cycle of memory phis that gave up: more than maxmemwalk
\* values lie before the end value and none of them clobbers the load
C12_Witness ==
    /\ Walked
    /\ ~q.ok
    /\ Cardinality(q.set) = maxmemwalk
    /\ Cardinality(BackReach(fn, q.mem, q.end)) > maxmemwalk
    /\ \E m \in q.set : fn.vals[m].op = "Phi"
    /\ \A m \in BackReach(fn, q.mem, q.end) :
         (fn.vals[m].op = "Store" /\ fn.vals[m].args[1] = 3) \/ fn.vals[m].op = "Phi"

\* the first store that is MustAlias with the load, walking back from
\* mem over non-phi operations that do not clobber the load; 0 if a phi,
\* a clobbering operation or InitMem comes first
RECURSIVE FirstMustAliasStore(_, _, _, _)
FirstMustAliasStore(f, a, load, mem) ==
    LET m == f.vals[mem]
    IN  IF m.op \in {"InitMem", "Phi"} THEN 0
        ELSE IF /\ m.op \in {"Store", "StoreWB"}
                /\ alias(f, a, m.args[1], TypeSize(m.aux), f.vals[load].args[1],
                         TypeSize(f.vals[load].typ)) = mustAlias
        THEN mem
        ELSE IF clobbers(f, a, mem, load) THEN 0
        ELSE FirstMustAliasStore(f, a, load, MemoryArg(f, mem))

UsedLoads(f) == {v \in 1..Len(f.vals) : f.vals[v].op = "Load" /\ Uses(f, v) > 0}

\* C13: when every operation between a used load's memory operand and the
\* first MustAlias store is a non-phi operation that does not clobber the
\* load, storeforward rewrites the load into a Copy of exactly the stored
\* value if that value and the load are both float or both non-float, and
\* leaves the load a load otherwise.
C13_DirectForward ==
    pc = "sfdone" =>
        \A v \in UsedLoads(sf.orig) :
            LET st == FirstMustAliasStore(sf.orig, aa, v, sf.orig.vals[v].args[2])
            IN  st # 0 =>
                  IF IsFloat(sf.orig.vals[v].typ) = IsFloat(sf.orig.vals[sf.orig.vals[st].args[2]].typ)
                  THEN fn.vals[v].op = "Copy" /\ fn.vals[v].args = <<sf.orig.vals[st].args[2]>>
                  ELSE fn.vals[v] = sf.orig.vals[v]

\* the used loads of f whose memory operand is a memory phi
MemPhiLoads(f) == {v \in UsedLoads(f) : f.vals[f.vals[v].args[2]].op = "Phi"}

\* a memory phi with at least two distinct incoming values other than itself
NonTrivial(f, phi) ==
    Cardinality({f.vals[phi].args[k] : k \in 1..Len(f.vals[phi].args)} \ {phi}) >= 2

\* the outcome of forwarding load v along the i-th incoming edge of its memory
\* phi, taken on the function as it was before the pass
EdgeResult(v, i) ==
    LET phi == sf.orig.vals[v].args[2]
    IN  loadfollow(sf.orig, aa, v, sf.orig.vals[phi].args[i], <<phi>>, {})

\* a value of the original function is named by its ID, a value created by
\* the pass by its operation, type and constant
Describe(f, x) ==
    IF x <= Len(sf.orig.vals) THEN [old |-> x, op |-> "", typ |-> "", auxint |-> 0]
    ELSE [old |-> 0, op |-> f.vals[x].op, typ |-> f.vals[x].typ, auxint |-> f.vals[x].auxint]

\* the merged value n of load v has, per edge, the value forwarded along it
\* (the new value itself where the edge leads back to the memory phi)
MergesEdges(v, n) ==
    LET phi == sf.orig.vals[v].args[2]
        nv == fn.vals[n]
    IN  /\ nv.op = "Phi"
        /\ Len(nv.args) = Len(sf.orig.vals[phi].args)
        /\ \A i \in 1..Len(nv.args) :
              LET e == EdgeResult(v, i)
              IN  IF e.val = phi THEN nv.args[i] = n
                  ELSE Describe(fn, nv.args[i]) = Describe(e.f, e.val)
        /\ \A i, j \in 1..Len(nv.args) :
              sf.orig.vals[phi].args[i] = sf.orig.vals[phi].args[j] => nv.args[i] = nv.args[j]

\* the edges of load v's memory phi forward one and the same value
OneValue(v) ==
    LET phi == sf.orig.vals[v].args[2]
        es == {EdgeResult(v, i) : i \in 1..Len(sf.orig.vals[phi].args)}
    IN  Cardinality({Describe(e.f, e.val) : e \in {x \in es : x.val # phi}}) = 1

EveryEdgeForwards(v) ==
    \A i \in 1..Len(sf.orig.vals[sf.orig.vals[v].args[2]].args) : EdgeResult(v, i).val # 0

\* C14 as stated: a load at a memory phi is rewritten iff every incoming edge
\* forwards, and then into a Copy of a new phi of the load's type in the
\* memory phi's block whose arguments are the per-edge values.
C14_PhiForwardAsClaimed ==
    pc = "sfdone" =>
        \A v \in MemPhiLoads(sf.orig) :
            /\ fn.vals[v].op = "Copy" <=> EveryEdgeForwards(v)
            /\ fn.vals[v].op = "Copy" =>
                  LET n == fn.vals[v].args[1]
                  IN  /\ n > Len(sf.orig.vals)
                      /\ fn.vals[n].typ = sf.orig.vals[v].typ
                      /\ fn.vals[n].block = sf.orig.vals[sf.orig.vals[v].args[2]].block
                      /\ MergesEdges(v, n)

\* C14 (amended): at a memory phi with two or more distinct incoming values,
\* a load is rewritten iff every incoming edge forwards, and then into a Copy
\* of a new value of the load's type in the memory phi's block: a phi of the
\* per-edge values, or, when all edges forward the same value, a Copy of
\* that one value.
C14_PhiForward ==
    pc = "sfdone" =>
        \A v \in MemPhiLoads(sf.orig) :
            NonTrivial(sf.orig, sf.orig.vals[v].args[2]) =>
                /\ fn.vals[v].op = "Copy" <=> EveryEdgeForwards(v)
                /\ fn.vals[v].op = "Copy" =>
                      LET n == fn.vals[v].args[1]
                          e1 == EdgeResult(v, 1)
                      IN  /\ n > Len(sf.orig.vals)
                          /\ fn.vals[n].typ = sf.orig.vals[v].typ
                          /\ fn.vals[n].block = sf.orig.vals[sf.orig.vals[v].args[2]].block
                          /\ IF OneValue(v)
                             THEN /\ fn.vals[n].op = "Copy"
                                  /\ \E i \in 1..Len(sf.orig.vals[sf.orig.vals[v].args[2]].args) :
                                        /\ EdgeResult(v, i).val # sf.orig.vals[v].args[2]
                                        /\ Describe(fn, fn.vals[n].args[1])
                                             = Describe(EdgeResult(v, i).f, EdgeResult(v, i).val)
                             ELSE MergesEdges(v, n)

\* a load after the loop was rewritten into a new phi one of whose arguments
\* was itself merged at the inner memory phi
C14_Witness ==
    /\ pc = "sfdone"
    /\ \E v \in MemPhiLoads(sf.orig) :
          /\ NonTrivial(sf.orig, sf.orig.vals[v].args[2])
          /\ fn.vals[v].op = "Copy"
          /\ fn.vals[fn.vals[v].args[1]].op = "Phi"
          /\ \E k \in 1..2 :
                LET x == fn.vals[fn.vals[v].args[1]].args[k]
                IN  x > Len(sf.orig.vals) /\ fn.vals[x].block = 2

\* the memory phis of f whose incoming values, other than the phi itself,
\* are all one value
TrivialMemPhis(f) ==
    {x \in 1..Len(f.vals) : f.vals[x].op = "Phi" /\ f.vals[x].typ = "Mem"
                              /\ ~NonTrivial(f, x)}

\* C17 as stated: a failed forwarding adds no value to any block and
\* rewrites no operation and no operand.
C17_FailedUnchangedAsClaimed ==
    sf.phase = "run" => \A r \in sf.failed : r.added = 0 /\ r.rewritten = {}

\* C17 (amended): a failed forwarding leaves the load and every other value
\* that existed before with its operation and operands, except that memory
\* phis with a single incoming value may have become copies of it; values
\* created on the way (zero constants, merged phis) stay in their blocks
\* without a use.
C17_FailedUnchanged ==
    sf.phase = "run" => \A r \in sf.failed :
        /\ r.load \notin r.rewritten
        /\ r.rewritten \subseteq TrivialMemPhis(sf.orig)
        /\ fn.vals[r.load].op = "Load" /\ fn.vals[r.load].args = sf.orig.vals[r.load].args

\* a forwarding that failed after it had created a value
C17_Witness == sf.phase = "run" /\ \E r \in sf.failed : r.added > 0

\* a forwarding that failed after it had turned a memory phi into a copy
C17_WitnessPhi == sf.phase = "run" /\ \E r \in sf.failed : r.rewritten # {}

\* the blocks reachable from the entry block
RECURSIVE ReachFrom(_, _)
ReachFrom(f, set) ==
    LET nxt == set \cup {f.blocks[b].succs[k] : <<b, k>> \in
                            {x \in set \X (1..2) : x[2] <= Len(f.blocks[x[1]].succs)}}
    IN  IF nxt = set THEN set ELSE ReachFrom(f, nxt)

\* the memory values of block b
MemIn(f, b) == {v \in 1..Len(f.vals) : f.vals[v].block = b /\ IsMemory(f.vals[v].typ)}

\* the memory value of block b that no later store of the block is based on
LastMem(f, b) ==
    CHOOSE v \in MemIn(f, b) :
        \A w \in MemIn(f, b) : f.vals[w].op # "Phi" => MemoryArg(f, w) # v

\* where the walk back from v stops: a phi, InitMem, or a value outside b
RECURSIVE StopOf(_, _, _)
StopOf(f, v, b) ==
    IF f.vals[v].block # b \/ f.vals[v].op \in {"Phi", "InitMem"} THEN v
    ELSE StopOf(f, MemoryArg(f, v), b)

Ranged == pc = "ranged" /\ q.kind = "ranges"

\* C16: memranges gives every block reachable from the entry a non-nil entry
\* and exit: InitMem (now in the entry block) is the entry block's entry; a
\* block with memory values has its last memory value as exit and the phi,
\* InitMem or outside value where the walk back stops as entry; a block
\* without memory values has entry = exit = the exit of its immediate
\* dominator.
C16_MemRanges ==
    Ranged =>
        \A b \in ReachFrom(fn, {fn.entry}) :
            /\ q.mr[b].entry # 0 /\ q.mr[b].exit # 0
            /\ b = fn.entry =>
                  /\ fn.vals[q.mr[b].entry].op = "InitMem"
                  /\ fn.vals[q.mr[b].entry].block = fn.entry
                  /\ \E k \in 1..Len(fn.blocks[b].values) : fn.blocks[b].values[k] = q.mr[b].entry
            /\ MemIn(fn, b) # {} =>
                  /\ q.mr[b].exit = LastMem(fn, b)
                  /\ q.mr[b].entry = StopOf(fn, LastMem(fn, b), b)
            /\ MemIn(fn, b) = {} =>
                  /\ q.mr[b].entry = q.mr[fn.idom[b]].exit
                  /\ q.mr[b].exit = q.mr[fn.idom[b]].exit

\* InitMem was hoisted from another block, a block with a store after a phi
\* has the phi as entry and the store as exit, and a block without memory
\* values inherited from its dominator
C16_Witness ==
    /\ Ranged
    /\ q.orig.vals[1].block # 1
    /\ \E b \in 1..Len(fn.blocks) :
          /\ fn.vals[q.mr[b].entry].op = "Phi" /\ fn.vals[q.mr[b].entry].block = b
          /\ fn.vals[q.mr[b].exit].op = "Store"
    /\ \E b \in 1..Len(fn.blocks) : MemIn(fn, b) = {} /\ q.mr[b].exit # 0

\* v is the result load of a call of a known allocator:
\* (Load (OffPtr [off] (SP)) (StaticCall {sym}))
IsAllocResult(f, v) ==
    /\ f.vals[v].op = "Load"
    /\ f.vals[f.vals[v].args[1]].op = "OffPtr"
    /\ f.vals[f.vals[f.vals[v].args[1]].args[1]].op = "SP"
    /\ f.vals[f.vals[v].args[2]].op = "StaticCall"
    /\ \E k \in 1..Len(knownAllocs) :
          /\ knownAllocs[k].name = f.vals[f.vals[v].args[2]].aux
          /\ f.vals[f.vals[v].args[1]].auxint
               = knownAllocs[k].ptroff * ptrsize + knownAllocs[k].byteoff

\* the value an address is computed from
RECURSIVE BaseOf(_, _)
BaseOf(f, id) ==
    IF f.vals[id].op \in {"OffPtr", "AddPtr", "PtrIndex", "Copy"}
    THEN BaseOf(f, f.vals[id].args[1]) ELSE id

\* c cannot be the allocation p: its base is an argument, or sits in a block
\* the allocation's block does not dominate
PredatesAlloc(f, p, c) ==
    LET cbase == BaseOf(f, c)
    IN  \/ f.vals[cbase].op = "Arg"
        \/ ~isAncestorEq(f, f.vals[p].block, f.vals[cbase].block)

\* C18: an allocator's result does not alias a pointer based on an argument
\* or on a value of a block the allocation does not dominate, whichever
\* operand comes first, and the results of two different allocator calls do
\* not alias each other.
C18_AllocNoAlias ==
    Answered =>
        /\ (IsAllocResult(fn, q.b) /\ ~IsPhi(fn, q.c) /\ PredatesAlloc(fn, q.b, q.c))
              => q.res = mustNotAlias
        /\ (IsAllocResult(fn, q.c) /\ ~IsPhi(fn, q.b) /\ PredatesAlloc(fn, q.c, q.b))
              => q.res = mustNotAlias
        /\ (IsAllocResult(fn, q.b) /\ IsAllocResult(fn, q.c)
             /\ fn.vals[q.b].args[2] # fn.vals[q.c].args[2])
              => q.res = mustNotAlias

\* the values an operand of alias stands for: a phi's incoming values, or
\* the operand itself
Resolved(f, v) ==
    IF IsPhi(f, v) THEN {f.vals[v].args[k] : k \in 1..Len(f.vals[v].args)} ELSE {v}

\* the answers of alias over the cross-product of the resolved values
PairAnswers(f, a, b, bw, c, cw) ==
    {alias(f, a, x, bw, y, cw) : <<x, y>> \in Resolved(f, b) \X Resolved(f, c)}

\* C19: with a phi operand (and two distinct operands), alias answers R when
\* alias of every pair of resolved values is R, and MayAlias when the pairs
\* disagree or an incoming value is itself a phi; a non-phi operand stands
\* for itself.
C19_PhiCrossProduct ==
    (Answered /\ q.b # q.c /\ (IsPhi(fn, q.b) \/ IsPhi(fn, q.c))) =>
        LET pairs == PairAnswers(fn, aa, q.b, q.bw, q.c, q.cw)
        IN  IF \E x \in Resolved(fn, q.b) \cup Resolved(fn, q.c) : IsPhi(fn, x)
            THEN q.res = mayAlias
            ELSE IF Cardinality(pairs) = 1 THEN {q.res} = pairs
            ELSE q.res = mayAlias

ClobbersAnswered == pc = "clobbered" /\ q.kind = "clobbers"

\* the operation a memory value stands for: the tuple generator of a Select1
MemOpOf(f, mem) == IF f.vals[mem].op = "Select1" THEN f.vals[mem].args[1] ELSE mem

\* C20: clobbers answers true for every memory operation that has side
\* effects or yields a tuple, whatever the load's base, a NonEscaping base
\* included.
C20_SideEffectsClobber ==
    ClobbersAnswered =>
        LET m == fn.vals[MemOpOf(fn, q.mem)]
        IN  (HasSideEffects(m.op) \/ IsTuple(m.typ)) => q.res = TRUE

\* the stores strictly after memory value m up to and including m2
RECURSIVE StoresBetween(_, _, _)
StoresBetween(f, m, m2) ==
    IF m2 = m \/ m2 = 0 THEN {} ELSE {m2} \cup StoresBetween(f, m, MemoryArg(f, m2))

\* x is computed from the value of v: v is among its transitive non-memory
\* arguments
RECURSIVE ComputedFrom(_, _, _)
ComputedFrom(f, x, v) ==
    \E k \in 1..Len(f.vals[x].args) :
        LET y == f.vals[x].args[k]
        IN  ~IsMemory(f.vals[y].typ) /\ (y = v \/ ComputedFrom(f, y, v))

\* a store to the slot the load reads: same base, same constant offset
SameSlot(f, s, v) ==
    /\ f.vals[s].op = "Store"
    /\ StripBase(f, f.vals[s].args[1]) = StripBase(f, f.vals[v].args[1])
    /\ ConstOffset(f, f.vals[s].args[1]) = ConstOffset(f, f.vals[v].args[1])

\* C15: whenever loadshuffle rewrote a load's memory operand from m to m',
\* no store strictly after m up to and including m' clobbers the load or is
\* computed from the load's value; in particular none of them stores to the
\* load's base and constant offset, whatever value computes that address.
C15_ShuffleSafe ==
    ls.phase = "run" =>
        \A r \in ls.log :
            \A s \in StoresBetween(fn, r.from, r.to) :
                /\ ~clobbers(fn, aa, s, r.load)
                /\ ~ComputedFrom(fn, s, r.load)
                /\ ~SameSlot(fn, s, r.load)

\* load1 was moved past a store to another slot and stopped before a store
\* to its own slot through the other address value
C15_Witness ==
    /\ pc = "lsdone"
    /\ \E r \in ls.log :
          /\ r.load = 13
          /\ StoresBetween(fn, r.from, r.to) # {}
          /\ \E s \in StoresBetween(fn, r.to, 12) :
                SameSlot(fn, s, 13) /\ fn.vals[s].args[1] # fn.vals[13].args[1]

\* the second run of a pass has ended
RanTwice == pc \in {"done", "sfdone", "lsdone"} /\ q.kind = "rerun"

C11_WitnessTighten == RanTwice /\ pc = "done" /\ q.work > 0

C11_WitnessForward == RanTwice /\ pc = "sfdone" /\ q.work > 0

\* the flags of the partition of the base of the address of a load; the
\* empty set when the base has no partition
BaseFlags(f, a, load) ==
    LET base == BaseOf(f, f.vals[load].args[1])
    IN  IF a.idinfo[base] = 0 THEN {} ELSE a.info[a.idinfo[base]].flags

\* C21: for a call and a load whose base is not ReadOnly, clobbers answers
\* false exactly when the partition of the load's base is flagged
\* NonEscaping and the base is not the stack pointer itself; a load at an
\* offset of SP, of a global or through an argument is clobbered, a load of
\* a stack slot whose address is never stored is not.
C21_CallClobbers ==
    (ClobbersAnswered /\ IsCall(fn.vals[q.mem].op)
       /\ ptrReadonly \notin BaseFlags(fn, aa, q.load)) =>
        LET base == BaseOf(fn, fn.vals[q.load].args[1])
        IN  /\ q.res = FALSE <=>
                  (ptrNoalias \in BaseFlags(fn, aa, q.load) /\ fn.vals[base].op # "SP")
            /\ (fn.vals[base].op = "SP" \/ IsGlobalAddr(fn, base) \/ IsPtrArg(fn, base))
                  => q.res = TRUE
            /\ (IsStackSlot(fn, base) /\ ~AddressStored(fn, base)) => q.res = FALSE

\* the call was asked about the load of a local whose address is never stored
C21_Witness ==
    /\ ClobbersAnswered /\ IsCall(fn.vals[q.mem].op)
    /\ IsStackSlot(fn, BaseOf(fn, fn.vals[q.load].args[1]))
    /\ ~AddressStored(fn, BaseOf(fn, fn.vals[q.load].args[1]))
    /\ q.res = FALSE

\* the call was asked about a load at an offset of the stack pointer
C21_WitnessSP ==
    /\ ClobbersAnswered /\ IsCall(fn.vals[q.mem].op)
    /\ fn.vals[BaseOf(fn, fn.vals[q.load].args[1])].op = "SP"
    /\ fn.vals[q.load].args[1] # BaseOf(fn, fn.vals[q.load].args[1])
    /\ q.res = TRUE

\* the load reads a statically known read-only symbol
ReadsReadOnly(f, load) ==
    LET base == BaseOf(f, f.vals[load].args[1])
    IN  IsGlobalAddr(f, base) /\ f.vals[base].aux \in ReadOnlySyms

\* C22 as claimed: no memory operation, the memory-initialization value and
\* the keep-alive markers included, clobbers a load whose base partition is
\* flagged ReadOnly.
C22_ReadOnlyAsClaimed ==
    (ClobbersAnswered /\ ptrReadonly \in BaseFlags(fn, aa, q.load)) => q.res = FALSE

\* C22: a load whose base partition is flagged ReadOnly is clobbered by the
\* memory-initialization value and by a keep-alive marker of the load
\* itself, and by no other memory operation: no store, zeroing, call,
\* atomic, tuple selector or scope marker.
C22_ReadOnly ==
    (ClobbersAnswered /\ ReadsReadOnly(fn, q.load)) =>
        /\ ptrReadonly \in BaseFlags(fn, aa, q.load)
        /\ q.res = (\/ fn.vals[q.mem].op = "InitMem"
                    \/ /\ fn.vals[q.mem].op = "KeepAlive"
                       /\ fn.vals[q.mem].args[1] = q.load)

\* a call was asked about a load of the read-only symbol
C22_Witness ==
    /\ ClobbersAnswered /\ ReadsReadOnly(fn, q.load)
    /\ IsCall(fn.vals[q.mem].op) /\ q.res = FALSE

\* the keep-alive marker of the read-only load was asked about that load
C22_WitnessKeepAlive ==
    /\ ClobbersAnswered /\ ReadsReadOnly(fn, q.load)
    /\ fn.vals[q.mem].op = "KeepAlive" /\ q.res = TRUE

\* C26: alias gives the same answer when its two (pointer, width) operands
\* are exchanged, for every pair of pointers and all widths, zero included.
C26_AliasSymmetric ==
    Answered => q.res = alias(fn, aa, q.c, q.cw, q.b, q.bw)

\* the memory value live at the end and at the start of block b, read off
\* the memory chain: a block without memory values has those of the end of
\* its immediate dominator
RECURSIVE BlockExit(_, _)
BlockExit(f, b) == IF MemIn(f, b) # {} THEN LastMem(f, b) ELSE BlockExit(f, f.idom[b])

BlockEntry(f, b) ==
    IF MemIn(f, b) # {} THEN StopOf(f, LastMem(f, b), b) ELSE BlockExit(f, f.idom[b])

\* the attempts of the move loop that relocated a load, and those that failed
LoadMoves == {k \in 1..Len(tg.log) : tg.log[k].ok /\ fn.vals[tg.log[k].v].op = "Load"}

FailedAttempts == {k \in 1..Len(tg.log) : ~tg.log[k].ok}

\* the memory operations on the memory-chain paths between the old and the
\* new memory operand of a relocated load, through every argument of every
\* memory phi
PassedBy(f, e) ==
    {m \in BackReach(f, IF e.hoist THEN e.oldmem ELSE e.newmem,
                        IF e.hoist THEN e.newmem ELSE e.oldmem) : f.vals[m].op # "Phi"}

\* C23: a relocated load has the entry memory value of its target block as
\* memory operand after a sink and the exit memory value after a hoist, and
\* clobbers is false for the load and every memory operation on the
\* memory-chain paths between its old and its new memory operand.
C23_MoveSafe ==
    tg.phase = "run" =>
        \A k \in LoadMoves :
            LET e == tg.log[k]
            IN  /\ e.newmem = IF e.hoist THEN BlockExit(fn, e.to) ELSE BlockEntry(fn, e.to)
                /\ \A m \in PassedBy(fn, e) : ~clobbers(fn, aa, m, e.v)

\* a run of tighten has sunk a load past stores and through a memory phi
C23_Witness ==
    /\ tg.phase = "run" /\ pc = "done"
    /\ \E k \in LoadMoves :
          /\ ~tg.log[k].hoist
          /\ PassedBy(fn, tg.log[k]) # {}
          /\ \E m \in BackReach(fn, tg.log[k].newmem, tg.log[k].oldmem) :
                fn.vals[m].op = "Phi"

\* a load was hoisted to the end of a block past a store
C23_WitnessHoist ==
    /\ tg.phase = "run"
    /\ \E k \in LoadMoves : tg.log[k].hoist /\ PassedBy(fn, tg.log[k]) # {}

\* C24: a load whose clobber walk failed is in the block it was in, with
\* the memory operand it had, is no longer a candidate, and the move loop
\* makes no other attempt on it, before or after, in the same run.
C24_FailedStays ==
    tg.phase = "run" =>
        \A k \in FailedAttempts :
            LET e == tg.log[k]
            IN  /\ fn.vals[e.v].op = "Load"
                /\ fn.vals[e.v].block = e.from
                /\ MemoryArg(fn, e.v) = e.oldmem
                /\ ~tg.canMove[e.v]
                /\ \A j \in 1..Len(tg.log) : j # k => tg.log[j].v # e.v

\* a run of tighten ended at least two iterations after a walk that found
\* a clobber
C24_Witness ==
    /\ tg.phase = "run" /\ pc = "done"
    /\ \E k \in FailedAttempts :
          /\ tg.pass > tg.log[k].pass + 1
          /\ \E m \in BackReach(fn, tg.mr[tg.log[k].to].entry, tg.log[k].oldmem) :
                fn.vals[m].op # "Phi" /\ clobbers(fn, aa, m, tg.log[k].v)

\* a run of tighten ended after a walk that gave up at its bound although
\* nothing clobbers the load
C24_WitnessBound ==
    /\ tg.phase = "run" /\ pc = "done"
    /\ \E k \in FailedAttempts :
          LET B == BackReach(fn, tg.mr[tg.log[k].to].entry, tg.log[k].oldmem)
          IN  /\ Cardinality(B) > maxmemwalk
              /\ \A m \in B : fn.vals[m].op # "Phi" => ~clobbers(fn, aa, m, tg.log[k].v)

\* a hoist failed
C24_WitnessHoist ==
    tg.phase = "run" /\ \E k \in FailedAttempts : tg.log[k].hoist

\* the relocations of the move loop so far
Relocations == {k \in 1..Len(tg.log) : tg.log[k].ok}

\* every relocation so far went to a block strictly dominated by the block
\* the value was in, and every iteration before the current one relocated
\* at least one value
StrictlyDown ==
    tg.phase = "run" =>
        /\ \A k \in Relocations :
              /\ tg.log[k].from # tg.log[k].to
              /\ isAncestorEq(fn, tg.log[k].from, tg.log[k].to)
        /\ \A n \in 1..(tg.pass - 1) : \E k \in Relocations : tg.log[k].pass = n

\* C28: every run of tighten on a well-formed function takes finitely many
\* steps, and each relocation moves a value to a block strictly dominated by
\* the block it was in, so that no value returns to a block it has left.
C28_Terminates ==
    /\ <>[][FALSE]_vars
    /\ []StrictlyDown
    /\ [](tg.phase = "run" =>
            \A j, k \in Relocations :
                (j < k /\ tg.log[j].v = tg.log[k].v) =>
                    /\ tg.log[k].from = tg.log[j].to
                    /\ tg.log[k].to # tg.log[j].from)

\* a run ended after four iterations in which one value was relocated twice
C28_Witness ==
    /\ tg.phase = "run" /\ pc = "done" /\ tg.pass >= 4
    /\ \E j, k \in Relocations : j < k /\ tg.log[j].v = tg.log[k].v

(***************************************************************************)
(* C25 and C27: what tighten leaves alone.                                 *)
(***************************************************************************)
\* the values of f: the IDs that are not free for reuse
Existing(f) == {v \in ValueIDs(f) : f.vals[v].op # "Free"}

\* the operations that are pinned to their block
PinnedOps == {"Phi", "GetClosurePtr", "Arg", "Select0", "Select1"}

\* a value with a memory operand that is not a load from the stack pointer
\* or from a symbol address
MemoryBearing(f, v) ==
    /\ \E k \in 1..Len(f.vals[v].args) : f.vals[f.vals[v].args[k]].typ = "Mem"
    /\ ~(f.vals[v].op = "Load" /\ f.vals[ptrbase(f, f.vals[v].args[1])].op \in {"SP", "Addr"})

\* the values the first loop of tighten does not let move, InitMem apart
Immovable(f) ==
    {v \in Existing(f) :
        \/ f.vals[v].op \in PinnedOps
        \/ /\ \A u \in Existing(f) : \A k \in 1..Len(f.vals[u].args) : f.vals[u].args[k] # v
           /\ \A b \in 1..Len(f.blocks) : f.blocks[b].control # v
        \/ MemoryBearing(f, v)}

\* the InitMem values of f
InitMems(f) == {v \in Existing(f) : f.vals[v].op = "InitMem"}

\* C25 as claimed: tighten changes the block of no phi, closure-pointer or
\* argument accessor, tuple selector, InitMem, value without uses or value
\* with a memory operand that is not a load from SP or a symbol address.
C25_PinnedAsClaimed ==
    tg.phase = "run" =>
        \A v \in Immovable(tg.start) \cup InitMems(tg.start) : fn.vals[v].block = tg.orig[v]

\* C25: the move loop of tighten relocates none of these values, and the
\* block of each of them is the block it had, except for an InitMem found
\* outside the entry block, which the memory-range computation at the start
\* of tighten puts into the entry block.
C25_Pinned ==
    tg.phase = "run" =>
        /\ \A v \in Immovable(tg.start) \ InitMems(tg.start) : fn.vals[v].block = tg.orig[v]
        /\ \A v \in InitMems(tg.start) : fn.vals[v].block \in {tg.orig[v], fn.entry}
        /\ \A v \in InitMems(fn) : fn.vals[v].block = fn.entry
        /\ \A k \in 1..Len(tg.log) :
               tg.log[k].v \notin Immovable(tg.start) \cup InitMems(tg.start)

\* a run ended in which a load was relocated, while a tuple selector, a load
\* through an argument and a load through the closure pointer, each used
\* only in another block, and a value without uses stayed
C25_Witness ==
    /\ tg.phase = "run" /\ pc = "done"
    /\ \E k \in Relocations : fn.vals[tg.log[k].v].op = "Load"
    /\ \E v \in Immovable(tg.start) :
           fn.vals[v].op = "Select0" /\ UseBlocks(fn, v) # {} /\ fn.vals[v].block \notin UseBlocks(fn, v)
    /\ \E v, w \in Immovable(tg.start) :
           /\ fn.vals[v].op = "Load" /\ fn.vals[ptrbase(fn, fn.vals[v].args[1])].op = "Arg"
           /\ fn.vals[w].op = "Load" /\ fn.vals[ptrbase(fn, fn.vals[w].args[1])].op = "GetClosurePtr"
           /\ fn.vals[v].block \notin UseBlocks(fn, v)
           /\ fn.vals[w].block \notin UseBlocks(fn, w)
    /\ \E v \in Immovable(tg.start) : Uses(fn, v) = 0

\* an InitMem that was outside the entry block is in the entry block
C25_WitnessInitMem ==
    /\ tg.phase = "run"
    /\ \E v \in InitMems(tg.start) : tg.orig[v] # fn.entry /\ fn.vals[v].block = fn.entry

\* the places <<block, index>> at which value v is listed
Places(f, v) ==
    {bk \in (1..Len(f.blocks)) \X (1..Len(f.vals)) :
        bk[2] <= Len(f.blocks[bk[1]].values) /\ f.blocks[bk[1]].values[bk[2]] = v}

\* each value is listed once, in the block of its Block field, and no free
\* ID is listed
Owned(f) ==
    /\ \A v \in Existing(f) :
           /\ Cardinality(Places(f, v)) = 1
           /\ \A bk \in Places(f, v) : bk[1] = f.vals[v].block
    /\ \A v \in ValueIDs(f) \ Existing(f) : Places(f, v) = {}
    /\ \A b \in 1..Len(f.blocks) : Len(f.blocks[b].values) <= Len(f.vals)

\* the move loop has passed by every value of the blocks before tg.bi: each
\* of them that is movable and has a target is in its target
NoneSkipped ==
    (tg.phase = "run" /\ pc = "move") =>
        \A b \in 1..Len(fn.blocks) : \A k \in 1..Len(fn.blocks[b].values) :
            LET v == fn.blocks[b].values[k]
            IN  (/\ b < tg.bi \/ (b = tg.bi /\ k < tg.i)
                 /\ v \in DOMAIN tg.target /\ tg.target[v] # 0 /\ tg.canMove[v]) => tg.target[v] = b

\* the values and blocks of the function are those tighten started with
SameValues ==
    tg.phase = "run" =>
        /\ Len(fn.blocks) = Len(tg.start.blocks)
        /\ Existing(fn) = Existing(tg.start)
        /\ Len(fn.vals) = Len(tg.start.vals)

\* C27 as claimed: during and after tighten every value is in one block
\* list, once, the block of its Block field; the removal neither drops,
\* duplicates nor skips a value; no value or block is created or deleted.
C27_OwnershipAsClaimed == Owned(fn) /\ NoneSkipped /\ SameValues

\* C27: the same, where the only value ever created is an InitMem in the
\* entry block of a function that had none.
C27_Ownership ==
    /\ Owned(fn)
    /\ NoneSkipped
    /\ (tg.phase = "run") =>
           /\ Len(fn.blocks) = Len(tg.start.blocks)
           /\ Existing(tg.start) \subseteq Existing(fn)
           /\ \A v \in Existing(tg.start) : fn.vals[v].op = tg.start.vals[v].op
           /\ \A v \in Existing(fn) \ Existing(tg.start) :
                  /\ InitMems(tg.start) = {}
                  /\ InitMems(fn) = {v}
                  /\ fn.vals[v].block = fn.entry

\* a value was removed from the middle of a block list, and the run went on
C27_Witness ==
    /\ tg.phase = "run" /\ pc = "done"
    /\ \E k \in Relocations :
           \E j \in 1..Len(tg.start.blocks[tg.log[k].from].values) :
               /\ tg.start.blocks[tg.log[k].from].values[j] = tg.log[k].v
               /\ j < Len(tg.start.blocks[tg.log[k].from].values)

\* an InitMem was created for a function without one
C27_WitnessCreated ==
    /\ tg.phase = "run"
    /\ Existing(fn) # Existing(tg.start)

(***************************************************************************)
(* joinreturn: all return blocks are made to fall through to one new       *)
(* return block that stores phis of the return values.                     *)
(* jr.start is the function joinreturn was called with.                    *)
(***************************************************************************)
\* isreturn(v): [sym, ok] for (Store (Addr {sym} SP) val mem), ok when the
\* symbol is an *ArgSymbol
isreturn(f, v) ==
    LET a == f.vals[v].args[1]
    IN  IF f.vals[v].op # "Store" THEN [sym |-> "", ok |-> FALSE]
        ELSE IF f.vals[a].op = "Addr" /\ f.vals[f.vals[a].args[1]].op = "SP"
        THEN [sym |-> f.vals[a].aux, ok |-> f.vals[a].aux \in ArgSyms]
        ELSE [sym |-> "", ok |-> FALSE]

\* the test that ends a walk over the return stores of block b
leavesBlock(f, b, ctl) ==
    f.vals[ctl].block # b \/ f.vals[ctl].op \in {"Phi", "InitMem"}

\* lines 37-45: the symbols and stores of the first return block, from its
\* control backwards
RECURSIVE templateWalk(_, _, _)
templateWalk(f, b, ctl) ==
    IF ~isreturn(f, ctl).ok THEN [syms |-> <<>>, stores |-> <<>>]
    ELSE LET next == MemoryArg(f, ctl)
             rest == IF leavesBlock(f, b, next) THEN [syms |-> <<>>, stores |-> <<>>]
                     ELSE templateWalk(f, b, next)
         IN  [syms |-> <<isreturn(f, ctl).sym>> \o rest.syms, stores |-> <<ctl>> \o rest.stores]

\* lines 59-75: the stored values of return block b and the memory before
\* its return stores; ok is false at a symbol that differs from the template
RECURSIVE gatherWalk(_, _, _, _, _)
gatherWalk(f, b, ctl, syms, argnum) ==
    IF ~isreturn(f, ctl).ok
    THEN [ok |-> TRUE, inargs |-> <<>>, mem |-> ctl, argnum |-> argnum]
    ELSE IF argnum >= Len(syms) \/ syms[argnum + 1] # isreturn(f, ctl).sym
    THEN [ok |-> FALSE, inargs |-> <<>>, mem |-> 0, argnum |-> argnum]
    ELSE LET next == MemoryArg(f, ctl)
         IN  IF leavesBlock(f, b, next)
             THEN [ok |-> TRUE, inargs |-> <<f.vals[ctl].args[2]>>, mem |-> next, argnum |-> argnum + 1]
             ELSE LET r == gatherWalk(f, b, next, syms, argnum + 1)
                  IN  [r EXCEPT !.inargs = <<f.vals[ctl].args[2]>> \o @]

\* a loop that would re-create the stores in the order of the walk
recreateIndex_forward(nargs, k) == k

\* lines 113-119: the k-th store created is stores[len(stores) - k]
recreateIndex(nargs, k) == nargs + 1 - k

\* the blocks of kind BlockRet, in the order of f.Blocks
RECURSIVE returnsFrom(_, _)
returnsFrom(f, b) ==
    IF b > Len(f.blocks) THEN <<>>
    ELSE (IF f.blocks[b].kind = "Ret" THEN <<b>> ELSE <<>>) \o returnsFrom(f, b + 1)

\* f.NewBlock(kind): the function with one more block, and no dominator or
\* loop information for it
NewBlock(f, kind) ==
    [f EXCEPT !.blocks = Append(@, Blk(kind, <<>>, 0, <<>>, <<>>)),
              !.idom = Append(@, 0),
              !.b2l = Append(@, 0)]

\* bb.Kind = BlockPlain; bb.AddEdgeTo(b); bb.SetControl(nil), for each bb
RECURSIVE fallThrough(_, _, _, _)
fallThrough(f, returns, k, b) ==
    IF k > Len(returns) THEN f
    ELSE LET bb == returns[k]
         IN  fallThrough([f EXCEPT !.blocks[bb].kind = "Plain",
                                   !.blocks[bb].succs = Append(@, b),
                                   !.blocks[b].preds = Append(@, bb),
                                   !.blocks[bb].control = 0],
                         returns, k + 1, b)

\* lines 104-111: one phi per return value, its arguments in block order
RECURSIVE argPhis(_, _, _, _, _, _)
argPhis(f, b, inargs, nargs, nblocks, i) ==
    IF i > nargs THEN [f |-> f, phis |-> <<>>]
    ELSE LET n == NewValue(f, b, "Phi", f.vals[inargs[i]].typ,
                           [j \in 1..nblocks |-> inargs[(j - 1) * nargs + i]])
             r == argPhis(n.f, b, inargs, nargs, nblocks, i + 1)
         IN  [f |-> r.f, phis |-> <<n.id>> \o r.phis]

\* lines 8-45: the return blocks and the template of the first of them
JoinStart ==
    /\ pc = "join"
    /\ LET returns == returnsFrom(fn, 1)
           b == returns[1]
           ctl == fn.blocks[b].control
           t == templateWalk(fn, b, ctl)
           stop == \/ Len(returns) <= 1
                   \/ fn.vals[ctl].block # b
                   \/ ~isreturn(fn, ctl).ok
       IN  /\ jr' = [phase |-> "run", start |-> fn, returns |-> returns,
                     syms |-> IF stop THEN <<>> ELSE t.syms,
                     stores |-> IF stop THEN <<>> ELSE t.stores,
                     inargs |-> <<>>, mem |-> <<>>, i |-> 1,
                     b |-> 0, memphi |-> 0, argphis |-> <<>>, lastmem |-> 0, k |-> 1]
           /\ pc' = IF stop THEN "joined" ELSE "gather"
    /\ UNCHANGED <<fn, aa, q, tg, sf, ls, sp>>

\* lines 56-82: one return block is compared with the template
JoinGather ==
    /\ pc = "gather"
    /\ jr.i <= Len(jr.returns)
    /\ LET b == jr.returns[jr.i]
           r == gatherWalk(fn, b, fn.blocks[b].control, jr.syms, 0)
       IN  IF r.ok /\ r.argnum = Len(jr.syms)
           THEN /\ jr' = [jr EXCEPT !.inargs = @ \o r.inargs, !.mem = Append(@, r.mem), !.i = @ + 1]
                /\ pc' = pc
           ELSE /\ jr' = jr
                /\ pc' = "joined"
    /\ UNCHANGED <<fn, aa, q, tg, sf, ls, sp>>

\* lines 85-91: the new return block and the edges to it
JoinRewire ==
    /\ pc = "gather"
    /\ jr.i > Len(jr.returns)
    /\ LET b == Len(fn.blocks) + 1
       IN  /\ fn' = fallThrough(NewBlock(fn, "Ret"), jr.returns, 1, b)
           /\ jr' = [jr EXCEPT !.b = b]
    /\ pc' = "phis"
    /\ UNCHANGED <<aa, q, tg, sf, ls, sp>>

\* lines 96-111: the memory phi and the phis of the return values
JoinPhis ==
    /\ pc = "phis"
    /\ LET m == NewValue(fn, jr.b, "Phi", "Mem", jr.mem)
           r == argPhis(m.f, jr.b, jr.inargs, Len(jr.syms), Len(jr.returns), 1)
       IN  /\ fn' = r.f
           /\ jr' = [jr EXCEPT !.memphi = m.id, !.argphis = r.phis, !.lastmem = m.id]
    /\ pc' = "stores"
    /\ UNCHANGED <<aa, q, tg, sf, ls, sp>>

\* lines 113-119: one return store is created again, on a copy of its address
JoinStore ==
    /\ pc = "stores"
    /\ jr.k <= Len(jr.stores)
    /\ LET i == recreateIndex(Len(jr.stores), jr.k)
           st == fn.vals[jr.stores[i]]
           ptr == Len(fn.vals) + 1
           new == Len(fn.vals) + 2
       IN  /\ fn' = [fn EXCEPT
                        !.vals = @ \o << [fn.vals[st.args[1]] EXCEPT !.block = jr.b],
                                         Val("Store", "Mem", 0, st.aux, <<ptr, jr.argphis[i], jr.lastmem>>, jr.b) >>,
                        !.blocks[jr.b].values = @ \o <<ptr, new>>]
           /\ jr' = [jr EXCEPT !.lastmem = new, !.k = @ + 1]
    /\ pc' = pc
    /\ UNCHANGED <<aa, q, tg, sf, ls, sp>>

\* line 121: the last store is the control of the new block
JoinControl ==
    /\ pc = "stores"
    /\ jr.k > Len(jr.stores)
    /\ fn' = [fn EXCEPT !.blocks[jr.b].control = jr.lastmem]
    /\ pc' = "joined"
    /\ UNCHANGED <<aa, q, tg, sf, ls, jr, sp>>

NextJoin == JoinStart \/ JoinGather \/ JoinRewire \/ JoinPhis \/ JoinStore \/ JoinControl

(***************************************************************************)
(* Specification SpecJoin: joinreturn on the functions                     *)
(*   b1 -> b2, b3;  b3 -> b4, b5                                           *)
(* where b4 returns and b2 and b5 return or exit.  Each of b2, b4, b5 ends *)
(* in a chain of up to three stores to the result slots retarg and retarg1 *)
(* and to a local; the stores of b2 or b5 may be in the block before.      *)
(***************************************************************************)
ChainChoices ==
    { <<>>, <<"retarg">>, <<"retarg1">>, <<"retarg", "retarg1">>, <<"retarg1", "retarg">>,
      <<"autotmp0", "retarg">>, <<"retarg", "autotmp0">>, <<"retarg", "autotmp0", "retarg1">> }

JoinParams ==
    [c2 : ChainChoices, c4 : ChainChoices, c5 : ChainChoices,
     k2 : {"Ret", "Exit"}, k5 : {"Ret", "Exit"}, out : {0, 2, 5}]

\* the address value of a symbol
JoinAddr(sym) == IF sym = "retarg" THEN 6 ELSE IF sym = "retarg1" THEN 7 ELSE 8

\* the stores of a chain, in memory order, the first one on memory value 9
returnStores(chain, b, in, first) ==
    [k \in 1..Len(chain) |->
        Val("Store", "Mem", 0, "Int64",
            <<JoinAddr(chain[k]), IF (b + k) % 2 = 0 THEN 3 ELSE 4, IF k = 1 THEN 9 ELSE first + k - 2>>,
            in)]

JoinVals(p) ==
    << Val("InitMem", "Mem", 0, "", <<>>, 1),                          \* 1 initmem
       Val("SP", "Invalid", 0, "", <<>>, 1),                           \* 2 sp
       Val("Arg", "Int64", 0, "argi", <<>>, 1),                        \* 3 argi
       Val("Const64", "Int64", 1, "", <<>>, 1),                        \* 4 c1
       Val("Less64", "Bool", 0, "", <<3, 4>>, 1),                      \* 5 cond1
       Val("Addr", "Int64Ptr", 0, "retarg", <<2>>, 1),                 \* 6 ret0
       Val("Addr", "Int64Ptr", 0, "retarg1", <<2>>, 1),                \* 7 ret1
       Val("Addr", "Int64Ptr", 0, "autotmp0", <<2>>, 1),               \* 8 auto0
       Val("Store", "Mem", 0, "Int64", <<8, 3, 1>>, 1),                \* 9 store
       Val("Less64", "Bool", 0, "", <<4, 3>>, 3) >>                    \* 10 cond3
    \o returnStores(p.c2, 2, IF p.out = 2 THEN 1 ELSE 2, 11)
    \o returnStores(p.c4, 4, 4, 11 + Len(p.c2))
    \o returnStores(p.c5, 5, IF p.out = 5 THEN 3 ELSE 5, 11 + Len(p.c2) + Len(p.c4))

JoinFunc(p) ==
    LET vals == JoinVals(p)
        last(chain, first) == IF chain = <<>> THEN 9 ELSE first + Len(chain) - 1
        bl(kind, b, control, preds, succs) == Blk(kind, valuesIn(vals, b, 1), control, preds, succs)
    IN  [vals |-> vals,
         blocks |-> << bl("If", 1, 5, <<>>, <<2, 3>>),
                       bl(p.k2, 2, last(p.c2, 11), <<1>>, <<>>),
                       bl("If", 3, 10, <<1>>, <<4, 5>>),
                       bl("Ret", 4, last(p.c4, 11 + Len(p.c2)), <<3>>, <<>>),
                       bl(p.k5, 5, last(p.c5, 11 + Len(p.c2) + Len(p.c4)), <<3>>, <<>>) >>,
         entry |-> 1,
         idom |-> <<0, 1, 1, 3, 3>>,
         b2l |-> <<0, 0, 0, 0, 0>>,
         loops |-> <<>>]

InitJoin ==
    /\ fn \in {JoinFunc(p) : p \in JoinParams}
    /\ aa = NoAA
    /\ pc = "join"
    /\ q = NoQuery
    /\ tg = NoTighten
    /\ sf = NoForward
    /\ ls = NoShuffle
    /\ jr = NoJoin
    /\ sp = NoSplice

SpecJoin == InitJoin /\ [][NextJoin]_vars

(***************************************************************************)
(* C29: joinreturn is all-or-nothing.                                      *)
(***************************************************************************)
\* the return blocks of f
ReturnBlocks(f) == {b \in 1..Len(f.blocks) : f.blocks[b].kind = "Ret"}

\* the first return block of f
FirstReturn(f) == CHOOSE b \in ReturnBlocks(f) : \A c \in ReturnBlocks(f) : b <= c

\* a store to a result slot: to the address of an argument symbol off SP
IsReturnStore(f, v) ==
    /\ f.vals[v].op = "Store"
    /\ f.vals[f.vals[v].args[1]].op = "Addr"
    /\ f.vals[f.vals[v].args[1]].aux \in ArgSyms
    /\ f.vals[f.vals[f.vals[v].args[1]].args[1]].op = "SP"

\* the chain of return-slot stores that ends in v, last store first: it goes
\* on through the memory operands while they are return-slot stores of b
RECURSIVE ReturnChain(_, _, _)
ReturnChain(f, b, v) ==
    IF ~IsReturnStore(f, v) THEN <<>>
    ELSE LET next == f.vals[v].args[3]
         IN  <<v>> \o (IF f.vals[next].block = b /\ f.vals[next].op \notin {"Phi", "InitMem"}
                       THEN ReturnChain(f, b, next) ELSE <<>>)

\* the chain of return block b
ChainOf(f, b) == ReturnChain(f, b, f.blocks[b].control)

\* its argument symbols
ChainSyms(f, b) == [k \in 1..Len(ChainOf(f, b)) |-> f.vals[f.vals[ChainOf(f, b)[k]].args[1]].aux]

\* the memory value before the return stores of b
MemBefore(f, b) ==
    IF ChainOf(f, b) = <<>> THEN f.blocks[b].control
    ELSE f.vals[ChainOf(f, b)[Len(ChainOf(f, b))]].args[3]

\* some return block's chain differs from that of the first return block
Mismatch(f) == \E b \in ReturnBlocks(f) : ChainSyms(f, b) # ChainSyms(f, FirstReturn(f))

\* the control of the first return block is not a return-slot store of that
\* block
NoTemplate(f) ==
    LET ctl == f.blocks[FirstReturn(f)].control
    IN  f.vals[ctl].block # FirstReturn(f) \/ ~IsReturnStore(f, ctl)

\* f is f0 with its return blocks joined
JoinedFrom(f0, f) ==
    LET R == ReturnBlocks(f0)
        order == returnsFrom(f0, 1)
        b == Len(f0.blocks) + 1
    IN  /\ Len(f.blocks) = b
        /\ ReturnBlocks(f) = {b}
        /\ \A bb \in R :
               f.blocks[bb] = [f0.blocks[bb] EXCEPT !.kind = "Plain", !.control = 0, !.succs = <<b>>]
        /\ \A bb \in (1..Len(f0.blocks)) \ R : f.blocks[bb] = f0.blocks[bb]
        /\ f.blocks[b].preds = order /\ f.blocks[b].succs = <<>>
        /\ SubSeq(f.vals, 1, Len(f0.vals)) = f0.vals
        /\ \A v \in (Len(f0.vals) + 1)..Len(f.vals) : f.vals[v].block = b /\ Places(f, v) \subseteq {b} \X (1..Len(f.vals))
        /\ LET chain == ChainOf(f, b)
               tmpl == ChainOf(f0, FirstReturn(f0))
           IN  /\ Len(chain) > 0
               /\ ChainSyms(f, b) = ChainSyms(f0, FirstReturn(f0))
               /\ LET phi == f.vals[f.vals[chain[Len(chain)]].args[3]]
                  IN  /\ phi.op = "Phi" /\ phi.typ = "Mem" /\ phi.block = b
                      /\ phi.args = [i \in 1..Len(order) |-> MemBefore(f0, order[i])]
               /\ \A k \in 1..Len(chain) :
                      LET phi == f.vals[f.vals[chain[k]].args[2]]
                      IN  /\ phi.op = "Phi" /\ phi.block = b
                          /\ phi.args = [i \in 1..Len(order) |-> f0.vals[ChainOf(f0, order[i])[k]].args[2]]

\* C29 as claimed: with at most one return block, or with a return block
\* whose chain of return-slot stores differs from that of the first return
\* block, the function is unchanged; otherwise the return blocks are joined.
C29_AllOrNothingAsClaimed ==
    (jr.phase = "run" /\ pc = "joined") =>
        IF Cardinality(ReturnBlocks(jr.start)) <= 1 \/ Mismatch(jr.start)
        THEN fn = jr.start
        ELSE JoinedFrom(jr.start, fn)

\* C29: the function is also unchanged when the control of the first return
\* block is not a return-slot store of that block; and it is unchanged for
\* as long as joinreturn is still comparing the return blocks.
C29_AllOrNothing ==
    /\ (jr.phase = "run" /\ pc = "gather") => fn = jr.start
    /\ (jr.phase = "run" /\ pc = "joined") =>
           IF \/ Cardinality(ReturnBlocks(jr.start)) <= 1
              \/ NoTemplate(jr.start)
              \/ Mismatch(jr.start)
           THEN fn = jr.start
           ELSE JoinedFrom(jr.start, fn)

\* three return blocks with two return stores each were joined
C29_Witness ==
    /\ jr.phase = "run" /\ pc = "joined" /\ fn # jr.start
    /\ Cardinality(ReturnBlocks(jr.start)) = 3
    /\ Len(ChainOf(jr.start, FirstReturn(jr.start))) = 2

\* a function was left alone because its third return block stores the
\* results in another order
C29_WitnessMismatch ==
    /\ jr.phase = "run" /\ pc = "joined" /\ fn = jr.start /\ jr.i = 3
    /\ Len(ChainOf(jr.start, 5)) = 2

\* a function with several return blocks and no return store was left alone
C29_WitnessNoResult ==
    /\ jr.phase = "run" /\ pc = "joined" /\ fn = jr.start
    /\ Cardinality(ReturnBlocks(jr.start)) > 1
    /\ \A b \in ReturnBlocks(jr.start) : ChainOf(jr.start, b) = <<>>

(***************************************************************************)
(* splice: data is moved from a socket to a socket through a pipe.         *)
(* sp holds the splicePipe (toread, written, inbuf), the errors err and    *)
(* err1 of splice ("" is nil), the length and canRead of a readFrom in     *)
(* progress, and what the kernel really holds: pipe is the number of bytes *)
(* in the pipe.  sp.failed tells that a splice system call has returned an *)
(* error other than EAGAIN.                                                *)
(***************************************************************************)
\* the size hint of the pipe, 65535 in the source, scaled down
pipeBuf == 3

\* the largest byte limit splice is called with
MaxAmt == 4

\* the capacity of the pipe in the kernel: 65536 for a size hint of 65535
PipeCap == pipeBuf + 1

\* what syscall.Splice returns for n along with an error: the wrapper
\* converts the result register of the failed system call, which is -1
spliceErrN == -1

Min(a, b) == IF a < b THEN a ELSE b

\* lines 121-125: the length readFrom asks for
readLen(toread, inbuf) ==
    IF toread > 0 /\ toread < pipeBuf - inbuf THEN toread ELSE pipeBuf - inbuf

\* lines 36-57: the locks are taken and the pipe is opened, or splice
\* returns 0 and the error
SpliceStart ==
    /\ pc = "splice"
    /\ \E e \in {"", "lock", "pipe2"} :
          IF e # ""
          THEN /\ sp' = [phase |-> "failed", amt |-> sp.amt, written |-> 0, err |-> e]
               /\ pc' = "returned"
          ELSE /\ sp' = [phase |-> "run", amt |-> sp.amt, toread |-> sp.amt, written |-> 0,
                         inbuf |-> 0, err |-> "", err1 |-> "", len |-> 0, canRead |-> FALSE,
                         pipe |-> 0, failed |-> FALSE]
               /\ pc' = "loop"
    /\ UNCHANGED <<fn, aa, q, tg, sf, ls, jr>>

\* line 59 and lines 116-130: the loop test and the start of readFrom
SpliceLoop ==
    /\ pc = "loop"
    /\ IF sp.err = "" /\ sp.toread # 0
       THEN /\ sp' = [sp EXCEPT !.len = readLen(sp.toread, sp.inbuf), !.canRead = FALSE]
            /\ pc' = "read"
       ELSE /\ sp' = sp
            /\ pc' = "flush"
    /\ UNCHANGED <<fn, aa, q, tg, sf, ls, jr>>

\* where splice goes on after readFrom returned nil: writeTo returns at once
\* when inbuf is 0 (lines 64 and 167-169)
afterRead(inbuf) == IF inbuf = 0 THEN "loop" ELSE "write"

\* lines 134-160: the socket-to-pipe system call and the rest of readFrom
SpliceRead ==
    /\ pc = "read"
    /\ \/ \* EAGAIN after a successful WaitRead: the pipe must be full
          /\ sp.canRead
          /\ sp' = sp
          /\ pc' = afterRead(sp.inbuf)
       \/ \* EAGAIN, then WaitRead fails or succeeds
          /\ ~sp.canRead
          /\ \E ok \in BOOLEAN :
                IF ok THEN sp' = [sp EXCEPT !.canRead = TRUE] /\ pc' = pc
                ELSE sp' = [sp EXCEPT !.err = "wait"] /\ pc' = "loop"
       \/ \* n bytes are moved; none is the end of the input
          \E n \in 0..Min(sp.len, PipeCap - sp.pipe) :
             IF n = 0
             THEN IF sp.toread < 0
                  THEN sp' = [sp EXCEPT !.toread = 0] /\ pc' = afterRead(sp.inbuf)
                  ELSE sp' = [sp EXCEPT !.err = "ErrUnexpectedEOF"] /\ pc' = "loop"
             ELSE /\ sp' = [sp EXCEPT !.inbuf = @ + n, !.toread = @ - n, !.pipe = @ + n]
                  /\ pc' = afterRead(sp.inbuf + n)
       \/ \* the system call fails with another error
          /\ sp' = [sp EXCEPT !.inbuf = @ + spliceErrN, !.toread = @ - spliceErrN,
                              !.err = "syscall", !.failed = TRUE]
          /\ pc' = "loop"
    /\ UNCHANGED <<fn, aa, q, tg, sf, ls, jr>>

\* lines 181-191: the pipe-to-socket system call and the rest of writeTo,
\* called from the loop of splice (pc = "write") or from flush
SpliceWrite ==
    /\ pc \in {"write", "flushwrite"}
    /\ \/ \* EAGAIN, then WaitWrite fails, or succeeds and the call is repeated
          \E ok \in BOOLEAN :
             IF ok THEN sp' = sp /\ pc' = pc
             ELSE IF pc = "write"
             THEN sp' = [sp EXCEPT !.err = "wait"] /\ pc' = "loop"
             ELSE sp' = [sp EXCEPT !.err1 = "wait"] /\ pc' = "finish"
       \/ \* n bytes are moved
          \E n \in 1..Min(sp.inbuf, sp.pipe) :
             /\ sp' = [sp EXCEPT !.inbuf = @ - n, !.written = @ + n, !.pipe = @ - n]
             /\ pc' = IF pc = "write" THEN "loop" ELSE "flush"
       \/ \* the system call fails with another error
          /\ sp' = [sp EXCEPT !.inbuf = @ - spliceErrN, !.written = @ + spliceErrN,
                              !.err = IF pc = "write" THEN "syscall" ELSE @,
                              !.err1 = IF pc = "write" THEN @ ELSE "syscall",
                              !.failed = TRUE]
          /\ pc' = IF pc = "write" THEN "loop" ELSE "finish"
    /\ UNCHANGED <<fn, aa, q, tg, sf, ls, jr>>

\* lines 194-200: flush calls writeTo while inbuf > 0
SpliceFlush ==
    /\ pc = "flush"
    /\ pc' = IF sp.inbuf > 0 THEN "flushwrite" ELSE "finish"
    /\ UNCHANGED <<fn, aa, q, tg, sf, ls, jr, sp>>

\* lines 67-79: the error of the loop, else that of flush, else that of
\* closing the pipe
SpliceReturn ==
    /\ pc = "finish"
    /\ \E closerr \in {"", "close"} :
          sp' = [sp EXCEPT !.err = IF sp.err # "" THEN sp.err
                                  ELSE IF sp.err1 # "" THEN sp.err1 ELSE closerr]
    /\ pc' = "returned"
    /\ UNCHANGED <<fn, aa, q, tg, sf, ls, jr>>

NextSplice == SpliceStart \/ SpliceLoop \/ SpliceRead \/ SpliceWrite \/ SpliceFlush \/ SpliceReturn

InitSplice ==
    /\ fn = NoFunc
    /\ aa = NoAA
    /\ pc = "splice"
    /\ q = NoQuery
    /\ tg = NoTighten
    /\ sf = NoForward
    /\ ls = NoShuffle
    /\ jr = NoJoin
    /\ sp \in {[phase |-> "call", amt |-> a] : a \in 0..MaxAmt}

SpecSplice == InitSplice /\ [][NextSplice]_vars

\* C30: for a byte limit amt >= 0, in every state of splice
\* 0 <= inbuf <= pipeBuf, toread >= 0 and written + inbuf + toread = amt,
\* and when splice returns a nil error, written = amt and inbuf = 0.
C30_SpliceInvariant ==
    sp.phase = "run" =>
        /\ 0 <= sp.inbuf /\ sp.inbuf <= pipeBuf
        /\ sp.toread >= 0
        /\ sp.written + sp.inbuf + sp.toread = sp.amt
        /\ (pc = "returned" /\ sp.err = "") => (sp.written = sp.amt /\ sp.inbuf = 0)
====
